---- MODULE Spec2Model ----
(***************************************************************************)
(* Posture server: the WebSocket session manager (websocket_server.py),    *)
(* the durable log (database.py), the two-stage classifier                 *)
(* (model_predictor.py) and the statistics service (statistics_api.py).    *)
(*                                                                         *)
(* Numbers.  Pressure readings are whole numbers.  A confidence, a weight, *)
(* a probability and a voting score are Python floats (IEEE-754 binary64): *)
(* every operation of the code on them is one rounded operation here, in   *)
(* the order the code performs it.  A decimal literal of the code, or a    *)
(* decimal an input is given as, is the float nearest to it.               *)
(***************************************************************************)
EXTENDS Integers, Sequences, FiniteSets, TLC

\* ------------------------------------------------------------------------
\* Bounds of the model
\* ------------------------------------------------------------------------
\* frames a client may send over the whole run (all connections together)
MaxFrames == 2

\* ------------------------------------------------------------------------
\* Program constants
\* ------------------------------------------------------------------------
NumLabels == 8
ExpectedFsrSize == 11
ImuSize == 6

\* ------------------------------------------------------------------------
\* Sequences of numbers
\* ------------------------------------------------------------------------
Abs(x) == IF x < 0 THEN -x ELSE x

RECURSIVE SumSeq(_)
SumSeq(s) == IF s = <<>> THEN 0 ELSE Head(s) + SumSeq(Tail(s))

MaxOf(S) == CHOOSE x \in S : \A y \in S : y <= x

\* fsr_data[a:b] of numpy, on 1-based positions a..b
Slice(s, a, b) == [i \in 1..(b - a + 1) |-> s[a + i - 1]]

\* ------------------------------------------------------------------------
\* Python floats (IEEE-754 binary64, round to nearest, ties to even)
\* ------------------------------------------------------------------------
\* A natural number of any size is the sequence of its digits in base
\* Limb, lowest first, without leading zero digits (zero is <<>>).
LimbBits == 14
Limb == 2 ^ LimbBits

\* digits of a float's significand
Precision == 53

RECURSIVE BNorm(_)
BNorm(a) ==
    IF a = <<>> THEN <<>>
    ELSE IF a[Len(a)] = 0 THEN BNorm(SubSeq(a, 1, Len(a) - 1))
    ELSE a

RECURSIVE BFromInt(_)
BFromInt(n) == IF n = 0 THEN <<>> ELSE <<n % Limb>> \o BFromInt(n \div Limb)

RECURSIVE BToInt(_)
BToInt(a) == IF a = <<>> THEN 0 ELSE Head(a) + Limb * BToInt(Tail(a))

RECURSIVE BAddC(_, _, _)
BAddC(a, b, c) ==
    IF a = <<>> /\ b = <<>> THEN (IF c = 0 THEN <<>> ELSE <<c>>)
    ELSE LET x == (IF a = <<>> THEN 0 ELSE Head(a))
                  + (IF b = <<>> THEN 0 ELSE Head(b)) + c
         IN  <<x % Limb>> \o BAddC(IF a = <<>> THEN <<>> ELSE Tail(a),
                                   IF b = <<>> THEN <<>> ELSE Tail(b),
                                   x \div Limb)

BAdd(a, b) == BAddC(a, b, 0)

\* a * k + c for a digit-sized k
RECURSIVE BMulSmall(_, _, _)
BMulSmall(a, k, c) ==
    IF a = <<>> THEN BFromInt(c)
    ELSE LET x == Head(a) * k + c
         IN  <<x % Limb>> \o BMulSmall(Tail(a), k, x \div Limb)

\* digit i of a, zero past its end
Digit(a, i) == IF i <= Len(a) THEN a[i] ELSE 0

\* the digits of the number whose columns, lowest first, are cols, carry
\* being what the column below carried over
RECURSIVE BCarry(_, _)
BCarry(cols, carry) ==
    IF cols = <<>> THEN BFromInt(carry)
    ELSE <<(Head(cols) + carry) % Limb>>
         \o BCarry(Tail(cols), (Head(cols) + carry) \div Limb)

\* a * b for a and b of at most four digits: the columns of the long
\* multiplication, then the carries from the lowest column up
BMul(a, b) ==
    LET col(k) == (IF k <= 4 THEN Digit(a, 1) * Digit(b, k) ELSE 0)
                  + (IF k >= 2 /\ k <= 5 THEN Digit(a, 2) * Digit(b, k - 1) ELSE 0)
                  + (IF k >= 3 /\ k <= 6 THEN Digit(a, 3) * Digit(b, k - 2) ELSE 0)
                  + (IF k >= 4 THEN Digit(a, 4) * Digit(b, k - 3) ELSE 0)
    IN  BNorm(BCarry(<<col(1), col(2), col(3), col(4), col(5), col(6), col(7)>>, 0))

\* -1, 0, 1 as a < b, a = b, a > b
RECURSIVE BCmp(_, _)
BCmp(a, b) ==
    IF Len(a) # Len(b) THEN (IF Len(a) < Len(b) THEN 0 - 1 ELSE 1)
    ELSE IF a = <<>> THEN 0
    ELSE IF a[Len(a)] # b[Len(b)] THEN (IF a[Len(a)] < b[Len(b)] THEN 0 - 1 ELSE 1)
    ELSE BCmp(BNorm(SubSeq(a, 1, Len(a) - 1)), BNorm(SubSeq(b, 1, Len(b) - 1)))

RECURSIVE IntBitLen(_)
IntBitLen(n) == IF n = 0 THEN 0 ELSE 1 + IntBitLen(n \div 2)

BitLen(a) == IF a = <<>> THEN 0 ELSE (Len(a) - 1) * LimbBits + IntBitLen(a[Len(a)])

\* k zero digits
RECURSIVE Zeros(_)
Zeros(k) == IF k = 0 THEN <<>> ELSE <<0>> \o Zeros(k - 1)

\* a * 2^n
BShl(a, n) ==
    IF a = <<>> THEN <<>>
    ELSE Zeros(n \div LimbBits) \o BMulSmall(a, 2 ^ (n % LimbBits), 0)

\* the digits of a \div 2^bits from digit i on, for bits < LimbBits
RECURSIVE ShrDigits(_, _, _)
ShrDigits(a, bits, i) ==
    IF i > Len(a) THEN <<>>
    ELSE <<a[i] \div (2 ^ bits)
           + (IF i < Len(a)
              THEN (a[i + 1] % (2 ^ bits)) * (2 ^ (LimbBits - bits))
              ELSE 0)>>
         \o ShrDigits(a, bits, i + 1)

\* a \div 2^n
BShr(a, n) ==
    LET skip == n \div LimbBits
        bits == n % LimbBits
        rest == IF skip >= Len(a) THEN <<>> ELSE SubSeq(a, skip + 1, Len(a))
    IN  BNorm(ShrDigits(rest, bits, 1))

\* a % 2^n
BLowBits(a, n) ==
    LET skip == n \div LimbBits
        bits == n % LimbBits
    IN  IF skip >= Len(a) THEN a
        ELSE BNorm(SubSeq(a, 1, skip) \o <<a[skip + 1] % (2 ^ bits)>>)

BOdd(a) == a # <<>> /\ a[1] % 2 = 1

\* q, or q + 1 when the digits cut off (c compares them with one half)
\* round up; a tie goes to the even one, sticky tells that the value cut
\* off is slightly more than its digits
RoundUp(q, c, sticky) ==
    IF c > 0 \/ (c = 0 /\ (sticky \/ BOdd(q))) THEN BAdd(q, <<1>>) ELSE q

\* the integer nearest to n / 2^s, ties to the even one
RoundShift(n, s, sticky) ==
    IF s = 0 THEN n
    ELSE RoundUp(BShr(n, s), BCmp(BLowBits(n, s), BShl(<<1>>, s - 1)), sticky)

\* A float is [m, e] with value m * 2^e and m = 0 or 2^52 <= m < 2^53.
FZero == [m |-> <<>>, e |-> 0]

\* q * 2^e for a rounded q of Precision digits, or of one more
FRenorm(q, e) ==
    IF BitLen(q) > Precision THEN [m |-> BShr(q, 1), e |-> e + 1]
    ELSE [m |-> q, e |-> e]

\* the float nearest to n * 2^e, for n of len binary digits
FRoundLen(n, e, sticky, len) ==
    IF len <= Precision
    THEN [m |-> BShl(n, Precision - len), e |-> e - (Precision - len)]
    ELSE FRenorm(RoundShift(n, len - Precision, sticky), e + (len - Precision))

\* the float nearest to n * 2^e
FRound(n, e, sticky) ==
    IF n = <<>> THEN FZero ELSE FRoundLen(n, e, sticky, BitLen(n))

\* float(n) of an int
FInt(n) == FRound(BFromInt(n), 0, FALSE)

\* x * y
FMul(x, y) ==
    IF x.m = <<>> \/ y.m = <<>> THEN FZero
    ELSE FRound(BMul(x.m, y.m), x.e + y.e, FALSE)

\* x + y
FAdd(x, y) ==
    IF x.m = <<>> THEN y
    ELSE IF y.m = <<>> THEN x
    ELSE LET e == IF x.e < y.e THEN x.e ELSE y.e
         IN  FRound(BAdd(BShl(x.m, x.e - e), BShl(y.m, y.e - e)), e, FALSE)

\* a significand as a pair <<hi, lo>> with value hi * 2^28 + lo
PairBase == 2 ^ 28

BToPair(a) ==
    <<Digit(a, 3) + Limb * Digit(a, 4), Digit(a, 1) + Limb * Digit(a, 2)>>

PDouble(p) == <<2 * p[1] + (2 * p[2]) \div PairBase, (2 * p[2]) % PairBase>>

PGe(p, q) == p[1] > q[1] \/ (p[1] = q[1] /\ p[2] >= q[2])

PSub(p, q) ==
    IF p[2] >= q[2] THEN <<p[1] - q[1], p[2] - q[2]>>
    ELSE <<p[1] - q[1] - 1, p[2] + PairBase - q[2]>>

\* the digits of a pair
BFromPair(p) ==
    BNorm(<<p[2] % Limb, p[2] \div Limb,
            p[1] % Limb, (p[1] \div Limb) % Limb, p[1] \div (Limb * Limb)>>)

\* binary digits of the quotient computed past the point, found in passes
\* of PassBits digits
DivBits == 56
PassBits == 8

\* The long division of r * 2^k by d, for r < d: k digits are still to
\* come, q holds the digits found. One step takes r2 = 2 * r.
DivTake(s, r2, d) ==
    IF PGe(r2, d)
    THEN [k |-> s.k - 1, q |-> <<PDouble(s.q)[1], PDouble(s.q)[2] + 1>>,
          r |-> PSub(r2, d)]
    ELSE [k |-> s.k - 1, q |-> PDouble(s.q), r |-> r2]

\* the steps up to the next multiple of PassBits digits to come
RECURSIVE DivPass(_, _)
DivPass(s, d) ==
    IF s.k % PassBits = 0 THEN s ELSE DivPass(DivTake(s, PDouble(s.r), d), d)

RECURSIVE DivLoop(_, _)
DivLoop(s, d) ==
    IF s.k = 0 THEN s
    ELSE DivLoop(DivPass(DivTake(s, PDouble(s.r), d), d), d)

\* the start of the division of xm by ym, xm < 2 * ym: the digit before the
\* point is taken first
DivStart(xm, ym) ==
    IF PGe(xm, ym) THEN [k |-> DivBits, q |-> <<0, 1>>, r |-> PSub(xm, ym)]
    ELSE [k |-> DivBits, q |-> <<0, 0>>, r |-> xm]

\* the float nearest to the quotient s.q * 2^e, s.r telling what is left
FQuotient(s, e) == FRound(BFromPair(s.q), e, s.r # <<0, 0>>)

\* x / y for y # 0: the quotient of the significands to DivBits binary
\* places, rounded
FDiv(x, y) ==
    IF x.m = <<>> THEN FZero
    ELSE FQuotient(DivLoop(DivStart(BToPair(x.m), BToPair(y.m)), BToPair(y.m)),
                   x.e - y.e - DivBits)

\* -1, 0, 1 as x < y, x = y, x > y
FCmp(x, y) ==
    IF x.m = <<>> \/ y.m = <<>>
    THEN (IF x.m = y.m THEN 0 ELSE IF x.m = <<>> THEN 0 - 1 ELSE 1)
    ELSE IF x.e # y.e THEN (IF x.e < y.e THEN 0 - 1 ELSE 1)
    ELSE BCmp(x.m, y.m)

FLe(x, y) == FCmp(x, y) <= 0
FLt(x, y) == FCmp(x, y) < 0

\* int(x)
FloorInt(x) ==
    BToInt(IF x.e >= 0 THEN BShl(x.m, x.e) ELSE BShr(x.m, 0 - x.e))

\* round(x, 2), in hundredths: the decimal with two places nearest to the
\* exact value of x, ties to even
Round2Hundredths(x) ==
    LET n == BMulSmall(x.m, 100, 0)
    IN  BToInt(IF x.e >= 0 THEN BShl(n, x.e) ELSE RoundShift(n, 0 - x.e, FALSE))

\* the float a decimal with two places denotes
F100 == FInt(100)
FHundredths(h) == FDiv(FInt(h), F100)

\* the float nearest to the fraction r[1] / r[2]: the Python float a
\* confidence written as a fraction denotes
FRat(r) == FDiv(FInt(r[1]), FInt(r[2]))

\* the integer nearest to x, ties to the even one (rint)
FRint(x) ==
    BToInt(IF x.e >= 0 THEN BShl(x.m, x.e) ELSE RoundShift(x.m, 0 - x.e, FALSE))

\* float.__round__(x, 3), in thousandths: the decimal with three places
\* nearest to the exact value of x, ties to even
PyRound3(x) == FRint([m |-> BMulSmall(x.m, 1000, 0), e |-> x.e])

\* numpy.float64.__round__(x, 3), in thousandths: rint(x * 1000.0) / 1000.0
NpRound3(x) == FRint(FMul(x, FInt(1000)))

\* a - b for a >= b, borrow being what the digit below borrowed
RECURSIVE BSubB(_, _, _)
BSubB(a, b, borrow) ==
    IF a = <<>> THEN <<>>
    ELSE LET x == Head(a) - (IF b = <<>> THEN 0 ELSE Head(b)) - borrow
         IN  <<IF x < 0 THEN x + Limb ELSE x>>
             \o BSubB(Tail(a), IF b = <<>> THEN <<>> ELSE Tail(b),
                      IF x < 0 THEN 1 ELSE 0)

BSub(a, b) == BNorm(BSubB(a, b, 0))

\* x - y for x >= y
FSub(x, y) ==
    IF y.m = <<>> THEN x
    ELSE LET e == IF x.e < y.e THEN x.e ELSE y.e
         IN  FRound(BSub(BShl(x.m, x.e - e), BShl(y.m, y.e - e)), e, FALSE)

\* The float literals of the code, each the double nearest to the decimal:
\* the digits of its significand (base Limb, lowest first) and its exponent
\* 1.0 = 0x1.0000000000000p+0
F1 == [m |-> <<0, 0, 0, 1024>>, e |-> 0 - 52]
\* 0.1 = 0x1.999999999999ap-4
F01 == [m |-> <<6554, 9830, 6553, 1638>>, e |-> 0 - 56]
\* 0.15 = 0x1.3333333333333p-3
F015 == [m |-> <<13107, 3276, 13107, 1228>>, e |-> 0 - 55]
\* 0.2 = 0x1.999999999999ap-3
F02 == [m |-> <<6554, 9830, 6553, 1638>>, e |-> 0 - 55]
\* 0.3 = 0x1.3333333333333p-2
F03 == [m |-> <<13107, 3276, 13107, 1228>>, e |-> 0 - 54]
\* 0.35 = 0x1.6666666666666p-2
F035 == [m |-> <<9830, 6553, 9830, 1433>>, e |-> 0 - 54]
\* 0.4 = 0x1.999999999999ap-2
F04 == [m |-> <<6554, 9830, 6553, 1638>>, e |-> 0 - 54]
\* 0.5 = 0x1.0000000000000p-1
F05 == [m |-> <<0, 0, 0, 1024>>, e |-> 0 - 53]
\* 0.6 = 0x1.3333333333333p-1
F06 == [m |-> <<13107, 3276, 13107, 1228>>, e |-> 0 - 53]
\* 0.7 = 0x1.6666666666666p-1
F07 == [m |-> <<9830, 6553, 9830, 1433>>, e |-> 0 - 53]
\* 0.75 = 0x1.8000000000000p-1
F075 == [m |-> <<0, 0, 0, 1536>>, e |-> 0 - 53]
\* 0.8 = 0x1.999999999999ap-1
F08 == [m |-> <<6554, 9830, 6553, 1638>>, e |-> 0 - 53]
\* 0.9 = 0x1.ccccccccccccdp-1
F09 == [m |-> <<3277, 13107, 3276, 1843>>, e |-> 0 - 53]
\* 0.95 = 0x1.e666666666666p-1
F095 == [m |-> <<9830, 6553, 9830, 1945>>, e |-> 0 - 53]
\* 1.2 = 0x1.3333333333333p+0
F12 == [m |-> <<13107, 3276, 13107, 1228>>, e |-> 0 - 52]
\* 1.3 = 0x1.4cccccccccccdp+0
F13 == [m |-> <<3277, 13107, 3276, 1331>>, e |-> 0 - 52]
\* 1.5 = 0x1.8000000000000p+0
F15 == [m |-> <<0, 0, 0, 1536>>, e |-> 0 - 52]

\* Python's min(a, b) and max(a, b): the first argument unless the second
\* is strictly smaller (larger)
PyMin(a, b) == IF FLt(b, a) THEN b ELSE a
PyMax(a, b) == IF FLt(a, b) THEN b ELSE a

\* max(0.3, min(0.95, x))
Clamp(x) == PyMax(F03, PyMin(F095, x))

\* ------------------------------------------------------------------------
\* Signed floats.  A negative reading makes a pressure sum, a ratio or a
\* confidence term negative, and the compensation of a sum can be negative:
\* [neg, a] is the float a, negated when neg.  Zero is kept unsigned (no
\* operation of the code tells -0.0 from 0.0).
\* ------------------------------------------------------------------------
Signed(neg, a) == [neg |-> neg /\ a.m # <<>>, a |-> a]
SPos(a) == Signed(FALSE, a)

\* float(n) of an int of either sign
SInt(n) == Signed(n < 0, FInt(Abs(n)))

\* x * y and x / y (y # 0)
SMul(x, y) == Signed(x.neg # y.neg, FMul(x.a, y.a))
SDiv(x, y) == Signed(x.neg # y.neg, FDiv(x.a, y.a))

\* big + small for two values of opposite signs, big the one not smaller in
\* magnitude
SDiff(big, small) == Signed(big.neg, FSub(big.a, small.a))

\* x + y
SAdd(x, y) ==
    IF x.neg = y.neg THEN Signed(x.neg, FAdd(x.a, y.a))
    ELSE SDiff(IF FLe(y.a, x.a) THEN x ELSE y, IF FLe(y.a, x.a) THEN y ELSE x)

\* x - y
SSub(x, y) == SAdd(x, Signed(~y.neg, y.a))

\* x < y
SLt(x, y) ==
    IF x.neg # y.neg THEN x.neg
    ELSE IF x.neg THEN FLt(y.a, x.a) ELSE FLt(x.a, y.a)

\* Python's min(c, x) for a literal c > 0: c unless x is strictly smaller
SMin(c, x) == IF SLt(x, SPos(c)) THEN x ELSE SPos(c)

\* max(0.3, min(0.95, x)) of a signed x: a negative x is raised to 0.3
SClamp(x) == IF x.neg THEN F03 ELSE Clamp(x.a)

\* ------------------------------------------------------------------------
\* Feature preprocessor
\* ------------------------------------------------------------------------
\* a preprocessor that keeps the last ExpectedFsrSize values of a long list
preprocess_data_KeepTail(fsr) ==
    [i \in 1..ExpectedFsrSize |->
        IF Len(fsr) > ExpectedFsrSize THEN fsr[Len(fsr) - ExpectedFsrSize + i]
        ELSE IF i <= Len(fsr) THEN fsr[i] ELSE 0]

\* preprocess_data: right-pad with zeros or truncate to ExpectedFsrSize
preprocess_data(fsr) ==
    [i \in 1..ExpectedFsrSize |-> IF i <= Len(fsr) THEN fsr[i] ELSE 0]

\* ------------------------------------------------------------------------
\* Rule-based classifier.  np.sum of whole readings is exact in binary64,
\* so the four pressures are kept as integers and converted where the code
\* multiplies or divides them.  Readings may be negative
\* (validate_model_input only warns about them).
\* ------------------------------------------------------------------------
left_pressure(f) == SumSeq(Slice(f, 1, 5))
right_pressure(f) == SumSeq(Slice(f, 6, 11))
\* a front group that takes sensor 2 in place of sensor 5
front_pressure_Shifted(f) == f[1] + f[2] + f[3] + f[7]

front_pressure(f) == f[1] + f[2] + f[6] + f[7]
back_pressure(f) == f[4] + f[5] + f[9] + f[10]

\* a > b * k, for the sums a and b and the literal k
Exceeds(a, b, k) == SLt(SMul(SInt(b), SPos(k)), SInt(a))

\* (a / b - 1) * 0.5 + 0.6 for b # 0
RatioValue(a, b) ==
    SAdd(SMul(SSub(SDiv(SInt(a), SInt(b)), SPos(F1)), SPos(F05)), SPos(F06))

\* the same term under a cap of 0.95
RatioConfidence_Cap95(a, b) ==
    IF b = 0 THEN SPos(F095) ELSE SMin(F095, RatioValue(a, b))

\* min(0.9, (a / b - 1) * 0.5 + 0.6); a numpy division by zero gives inf
\* (a warning, no exception; a exceeds b * k = 0, so a is positive), and
\* min(0.9, inf) is 0.9
RatioConfidence(a, b) ==
    IF b = 0 THEN SPos(F09) ELSE SMin(F09, RatioValue(a, b))

\* np.mean(fsr_data[:5]) > np.mean(fsr_data[5:]) * 1.2
LeftMeanExceeds(f) ==
    SLt(SMul(SDiv(SInt(right_pressure(f)), SInt(Len(f) - 5)), SPos(F12)),
        SDiv(SInt(left_pressure(f)), SInt(5)))

\* np.max(fsr_data[:3]) > np.mean(fsr_data) * 1.5
FrontPeak(f) ==
    SLt(SMul(SDiv(SInt(SumSeq(f)), SInt(Len(f))), SPos(F15)),
        SInt(MaxOf({f[1], f[2], f[3]})))

\* min(0.95, balance_score + 0.3),
\* balance_score = 1 - abs(left_pressure - right_pressure) / total_pressure
BalanceConfidence(l, r, total) ==
    SMin(F095, SAdd(SSub(SPos(F1), SDiv(SInt(Abs(l - r)), SInt(total))),
                    SPos(F03)))

\* the balanced branch taken without the zero-pressure test of line 286
analyze_fsr_pattern_NoZeroCase(f) ==
    [label |-> 0, conf |-> Clamp(PyMin(F095, FAdd(F1, F03)))]

\* the branches of lines 301-331 for the sums l, r, fr, bk and their total,
\* then the clamp of line 334
RuleBranches(f, l, r, fr, bk, total) ==
    IF Exceeds(l, r, F15)
    THEN [label |-> IF fr > bk THEN 7 ELSE 5,
          conf |-> SClamp(RatioConfidence(l, r))]
    ELSE IF Exceeds(r, l, F15)
    THEN [label |-> IF fr > bk THEN 6 ELSE 4,
          conf |-> SClamp(RatioConfidence(r, l))]
    ELSE IF Exceeds(fr, bk, F13)
    THEN [label |-> IF FrontPeak(f) THEN 2
                    ELSE IF LeftMeanExceeds(f) THEN 1 ELSE 3,
          conf |-> SClamp(RatioConfidence(fr, bk))]
    ELSE [label |-> 0, conf |-> SClamp(BalanceConfidence(l, r, total))]

analyze_fsr_pattern(f) ==
    IF SumSeq(f) = 0 THEN [label |-> 0, conf |-> F05]
    ELSE RuleBranches(f, left_pressure(f), right_pressure(f),
                      front_pressure(f), back_pressure(f), SumSeq(f))

\* ------------------------------------------------------------------------
\* Predictor state (EnsemblePosturePredictor.__init__): fixed after loading
\* ------------------------------------------------------------------------
VARIABLES
    models,            \* names of the loaded stage-1 models, or {"rule_based"}
    scaler,            \* TRUE when the stage-1 scaler is loaded
    models_stage2,     \* names of the loaded stage-2 models
    scaler_stage2      \* TRUE when the stage-2 scaler is loaded

predictorVars == <<models, scaler, models_stage2, scaler_stage2>>

\* iteration order of self.models / self.models_stage2 (dict insertion order)
ModelOrder == <<"lr", "rf", "dt", "kn">>
Stage2Order == <<"lr2", "rf2", "dt2", "kn2">>

\* load_ensemble_models: the files that load, or the rule-based placeholder
load_ensemble_models(found) == IF found = {} THEN {"rule_based"} ELSE found

\* self.model_weights.get(model_name, 1.0)
model_weight(name) ==
    CASE name = "lr" -> F03
      [] name = "rf" -> F035
      [] name = "dt" -> F02
      [] name = "kn" -> F015
      [] OTHER -> F1

\* ------------------------------------------------------------------------
\* Weighted vote shared by ensemble_predict and stage2_predict.
\* An outcome of one model on one call:
\*   fails  predict() raises
\*   pred   the label predict() returns
\*   kind   "proba"        predict_proba returns `proba` (tenths, 8 classes)
\*          "proba_raises" predict_proba (or adding it to the scores) raises
\*          "noproba"      the model has no predict_proba
\* ------------------------------------------------------------------------
\* the floats 0.0, 0.1, .., 1.0 a probability row holds; k tenths is entry k + 1
TenthFloats ==
    <<FZero, F01, F02, F03, F04, F05, F06, F07, F08, F09, F1>>

\* What one model adds to voting_scores[c]: proba[c] * weight, or weight on
\* voting_scores[pred] of a model without predict_proba.  That entry is
\* reached when pred < 8: a negative pred down to -8 counts from the end of
\* the array, below -8 the index raises IndexError.
Contribution(name, out, c) ==
    IF out.fails THEN FZero
    ELSE IF out.kind = "proba"
    THEN FMul(TenthFloats[out.proba[c + 1] + 1], model_weight(name))
    ELSE IF /\ out.kind = "noproba"
            /\ out.pred < NumLabels
            /\ out.pred >= 0 - NumLabels
            /\ out.pred % NumLabels = c
         THEN model_weight(name)
    ELSE FZero

\* voting_scores[c] after the loop has added the models of order to acc,
\* one after the other
RECURSIVE ScoreAdd(_, _, _, _)
ScoreAdd(acc, order, outs, c) ==
    IF order = <<>> THEN acc
    ELSE ScoreAdd(FAdd(acc, Contribution(Head(order), outs[Head(order)], c)),
                  Tail(order), outs, c)

\* voting_scores[c] at the end of the loop, from np.zeros
ScoreOf(order, outs, c) == ScoreAdd(FZero, order, outs, c)

\* the entries voting_scores[c], .., voting_scores[7]
RECURSIVE ScoresFrom(_, _, _)
ScoresFrom(order, outs, c) ==
    IF c = NumLabels THEN <<>>
    ELSE <<ScoreOf(order, outs, c)>> \o ScoresFrom(order, outs, c + 1)

\* the array voting_scores: entry c + 1 is voting_scores[c]
voting_scores(order, outs) == ScoresFrom(order, outs, 0)

\* np.sum(voting_scores): numpy adds eight doubles in pairs,
\* ((v0 + v1) + (v2 + v3)) + ((v4 + v5) + (v6 + v7))
ScoreSum(vs) ==
    FAdd(FAdd(FAdd(vs[1], vs[2]), FAdd(vs[3], vs[4])),
         FAdd(FAdd(vs[5], vs[6]), FAdd(vs[7], vs[8])))

\* predictions: the raw labels of the models whose predict() returned
RECURSIVE predictions(_, _)
predictions(order, outs) ==
    IF order = <<>> THEN <<>>
    ELSE IF outs[Head(order)].fails THEN predictions(Tail(order), outs)
    ELSE <<outs[Head(order)].pred>> \o predictions(Tail(order), outs)

\* np.argmax: the lowest index holding the maximum
ArgMax(vs) ==
    CHOOSE c \in 0..(Len(vs) - 1) :
        /\ \A d \in 0..(Len(vs) - 1) : FLe(vs[d + 1], vs[c + 1])
        /\ \A d \in 0..(Len(vs) - 1) : vs[d + 1] = vs[c + 1] => c <= d

\* Counter(...).most_common(1)[0][0]: the most frequent value, the first
\* one seen among equals
CountIn(ps, v) == Cardinality({i \in DOMAIN ps : ps[i] = v})
MostCommon(ps) ==
    LET best == CHOOSE i \in DOMAIN ps :
                    /\ \A j \in DOMAIN ps : CountIn(ps, ps[j]) <= CountIn(ps, ps[i])
                    /\ \A j \in DOMAIN ps :
                           CountIn(ps, ps[j]) = CountIn(ps, ps[i]) => i <= j
    IN  ps[best]

\* the pair of a vote whose scores are vs and whose np.sum is total, ps
\* being the raw predictions and degenerate the confidence of the all-zero
\* branch
VotePair(vs, total, ps, degenerate) ==
    IF FLt(FZero, total)
    THEN [label |-> ArgMax(vs), conf |-> Clamp(FDiv(vs[ArgMax(vs) + 1], total))]
    ELSE [label |-> MostCommon(ps), conf |-> Clamp(degenerate)]

VoteOf(vs, ps, degenerate) == VotePair(vs, ScoreSum(vs), ps, degenerate)

\* the final (label, confidence) of a vote with at least one prediction
VoteResult(order, outs, degenerate) ==
    VoteOf(voting_scores(order, outs), predictions(order, outs), degenerate)

LoadedOrder(order, loaded) == SelectSeq(order, LAMBDA n : n \in loaded)

\* the except branch of the voting loop ran: predict raised, predict_proba
\* (or adding its row) raised, or voting_scores[pred] raised IndexError
AnyModelRaises(order, outs) ==
    \E i \in DOMAIN order :
        \/ outs[order[i]].fails
        \/ outs[order[i]].kind = "proba_raises"
        \/ outs[order[i]].kind = "noproba" /\ outs[order[i]].pred < 0 - NumLabels

\* ------------------------------------------------------------------------
\* ensemble_predict.  exc: the scaler's transform raised (nothing returned)
\* ------------------------------------------------------------------------
ensemble_predict(features, env) ==
    LET order == LoadedOrder(ModelOrder, models)
    IN  IF scaler /\ env.scaler_raises
        THEN [exc |-> TRUE, label |-> 0, conf |-> FZero, rule |-> FALSE]
        ELSE IF predictions(order, env.out1) = <<>>
        THEN [exc |-> FALSE, rule |-> TRUE] @@ analyze_fsr_pattern(features)
        ELSE [exc |-> FALSE, rule |-> FALSE]
             @@ VoteResult(order, env.out1, F05)

\* ------------------------------------------------------------------------
\* stage2_predict
\* ------------------------------------------------------------------------
stage2_predict(imu_features, env) ==
    LET order == LoadedOrder(Stage2Order, models_stage2)
    IN  IF models_stage2 = {}
        THEN [exc |-> FALSE, label |-> 0, conf |-> F05]
        ELSE IF scaler_stage2 /\ env.scaler2_raises
        THEN [exc |-> TRUE, label |-> 0, conf |-> FZero]
        ELSE IF predictions(order, env.out2) = <<>>
        THEN [exc |-> FALSE, label |-> 0, conf |-> F05]
        ELSE [exc |-> FALSE] @@ VoteResult(order, env.out2, F06)

\* ------------------------------------------------------------------------
\* Inertial data of a frame.  kind:
\*   "none"   the IMU key is absent (None)
\*   "empty"  an empty dict or list
\*   "wire"   {accel: [ax, ay, az], gyro: [gx, gy, gz]}
\*   "flat"   {accel_x: .., accel_y: .., .., gyro_z: ..}
\*   "list"   [ax, ay, az, gx, gy, gz]
\*   "short"  a list of fewer than six values
\* ------------------------------------------------------------------------
ZeroImu == [i \in 1..ImuSize |-> 0]

\* Python truthiness of imu_data
ImuTruthy(imu) == imu.kind \notin {"none", "empty"}

preprocess_imu_data(imu) ==
    IF ~ImuTruthy(imu) THEN ZeroImu
    ELSE IF imu.kind = "flat" THEN imu.v
    ELSE IF imu.kind = "wire" THEN ZeroImu   \* no accel_x .. gyro_z keys
    ELSE IF imu.kind = "list" THEN imu.v
    ELSE ZeroImu

\* ------------------------------------------------------------------------
\* predict_posture
\* ------------------------------------------------------------------------
NoResult == [label |-> 0 - 1, conf |-> FZero]
LabelConf(r) == [label |-> r.label, conf |-> r.conf]

\* What predict_posture hands back.  raised: the except branch of line 421
\* ran; propagates: an exception left predict_posture; model_exc: a model's
\* predict or predict_proba raised and was caught in the voting loop.
\* the except branch: random.randint(0, 7), random.uniform(0.4, 0.8)
\* a handler that lets the exception out of predict_posture
RandomFallback_Reraise(env, s1, s2ran, s2, modelExc) ==
    [label |-> 0 - 1, conf |-> FZero, method |-> "none",
     raised |-> TRUE, propagates |-> TRUE, s1 |-> s1, s2ran |-> s2ran,
     s2 |-> s2, imu_features |-> ZeroImu, model_exc |-> modelExc]

RandomFallback(env, s1, s2ran, s2, modelExc) ==
    [label |-> env.rand_label, conf |-> env.rand_conf, method |-> "random",
     raised |-> TRUE, propagates |-> FALSE, s1 |-> s1, s2ran |-> s2ran,
     s2 |-> s2, imu_features |-> ZeroImu, model_exc |-> modelExc]

\* a test that sends a single learned model to the vote
UseEnsemble_AnyLearned == Cardinality(models) >= 1 /\ "rule_based" \notin models

UseEnsemble == Cardinality(models) > 1 /\ "rule_based" \notin models

\* a trigger that does not look at the inertial data
Stage2Triggered_NoImuTest(label, imu) ==
    label \in {0, 1} /\ models_stage2 # {}

Stage2Triggered(label, imu) ==
    label \in {0, 1} /\ ImuTruthy(imu) /\ models_stage2 # {}

\* an override test that accepts a confidence of exactly 0.6
Stage2Overrides_AtLeast(s2) == s2.label # 0 /\ FLe(F06, s2.conf)

Stage2Overrides(s2) == s2.label # 0 /\ FLt(F06, s2.conf)

\* a return path without the range check
RangeCheck_None(r) == r

\* lines 393-396: a label outside posture_labels becomes (0, 0.5)
RangeCheck(r) ==
    IF r.label \in 0..(NumLabels - 1) THEN r
    ELSE [r EXCEPT !.label = 0, !.conf = F05]

\* lines 385-419: the pair returned when stage 2 did not run
Stage1Return(s1, method1, exc1) ==
    [label |-> s1.label, conf |-> s1.conf, method |-> method1,
     raised |-> FALSE, propagates |-> FALSE, s1 |-> s1,
     s2ran |-> FALSE, s2 |-> NoResult,
     imu_features |-> ZeroImu, model_exc |-> exc1]

\* lines 366-384: the pair returned when stage 2 ran; over says whether the
\* stage-2 pair s2 replaces the stage-1 pair s1
Stage2Return(s1, s2, over, method1, imuf, modelExc) ==
    [label |-> IF over THEN s2.label ELSE s1.label,
     conf |-> IF over THEN s2.conf ELSE s1.conf,
     method |-> IF over THEN method1 \o "_+_stage2" ELSE method1,
     raised |-> FALSE, propagates |-> FALSE, s1 |-> s1,
     s2ran |-> TRUE, s2 |-> s2,
     imu_features |-> imuf, model_exc |-> modelExc]

\* lines 366-419 once stage 1 has given the pair s1: e2 is what
\* stage2_predict does when it is called
AfterStage1(imu, env, s1, method1, exc1, e2, exc2) ==
    IF ~Stage2Triggered(s1.label, imu)
    THEN RangeCheck(Stage1Return(s1, method1, exc1))
    ELSE IF e2.exc
    THEN RandomFallback(env, s1, TRUE, NoResult, exc1)
    ELSE RangeCheck(Stage2Return(s1, LabelConf(e2),
                                 Stage2Overrides(LabelConf(e2)), method1,
                                 preprocess_imu_data(imu), exc1 \/ exc2))

\* lines 352-419 after preprocess_data; e1 is what stage 1 does, e2 what
\* stage2_predict does when it is called
FromStages(imu, env, e1, e2, exc2) ==
    IF UseEnsemble /\ e1.exc
    THEN RandomFallback(env, NoResult, FALSE, NoResult, FALSE)
    ELSE IF UseEnsemble
    THEN AfterStage1(imu, env, LabelConf(e1), "ensemble_stage1",
                     AnyModelRaises(LoadedOrder(ModelOrder, models), env.out1),
                     e2, exc2)
    ELSE AfterStage1(imu, env, e1, "rule_based_stage1", FALSE, e2, exc2)

\* stage 1 of predict_posture: the vote, or the rule-based classifier
Stage1(features, env) ==
    IF UseEnsemble THEN ensemble_predict(features, env)
    ELSE analyze_fsr_pattern(features)

predict_posture(fsr, imu, env) ==
    IF env.pre_raises
    THEN RandomFallback(env, NoResult, FALSE, NoResult, FALSE)
    ELSE FromStages(imu, env, Stage1(preprocess_data(fsr), env),
                    stage2_predict(preprocess_imu_data(imu), env),
                    AnyModelRaises(LoadedOrder(Stage2Order, models_stage2),
                                   env.out2))

\* validate_model_input.  An FSR value of a frame is a record:
\*   t       "absent" (no FSR key), "notlist" or "list"
\*   v       the numbers of the list
\*   nonnum  TRUE when some element is not an int or a float
validate_model_input(fsr) ==
    /\ fsr.t = "list"
    /\ Len(fsr.v) # 0
    /\ ~fsr.nonnum

\* ------------------------------------------------------------------------
\* Session manager state (PostureWebSocketServer) and the durable log
\* ------------------------------------------------------------------------
\* the websocket objects handed to handle_client
Conns == {"w1", "w2"}

VARIABLES
    connected_clients, \* client_id -> websocket
    client_info,       \* client_id -> predictions_count
    total_predictions, \* performance_stats['total_predictions']
    response_times,    \* performance_stats['response_times']
    latency_log,       \* every value passed to update_performance_stats
    nextUuid,          \* the next value uuid.uuid4() yields
    posture_predictions, \* rows of the posture_predictions table
    client_connections,  \* rows of the client_connections table
    pc,                \* where each connection's handle_client task stands
    client_id,         \* the client_id local of each handle_client task
    cur,               \* the frame each task is processing
    res,               \* what predict_posture returned for cur
    pending,           \* the payload each task is sending
    running,           \* the task that holds the event loop, or "none"
    transport,         \* "idle", "open" or "closed" per websocket
    inbox,             \* frames delivered to the server, not yet iterated
    outbox,            \* payloads websocket.send delivered, per websocket
    sent,              \* the frames each client sent, in order
    steps,             \* how many steps each handle_client task has run
    disconnect_logged  \* client_ids whose disconnection update committed

serverVars == <<connected_clients, client_info, total_predictions,
                response_times, latency_log, nextUuid, posture_predictions,
                client_connections, pc, client_id, cur, res, pending,
                running, transport, inbox, outbox, sent, steps,
                disconnect_logged>>

\* the rolling window of update_performance_stats
WindowSize == 100

NoFsr == [t |-> "absent", v |-> <<>>, nonnum |-> FALSE]
NoImu == [kind |-> "none", v |-> ZeroImu]
ZeroFsr == [t |-> "list", v |-> [i \in 1..ExpectedFsrSize |-> 0], nonnum |-> FALSE]
EmptyFsr == [t |-> "list", v |-> <<>>, nonnum |-> FALSE]
WireImu == [kind |-> "wire", v |-> <<1, 2, 3, 4, 5, 6>>]

\* A frame as the client sends it.  kind: "text" (not JSON), "nonobj" (a
\* JSON value that is no object) or "obj"; id: "absent" or the id's text.
Frame(kind, id, dev, fsr, imu) ==
    [kind |-> kind, id |-> id, dev |-> dev, fsr |-> fsr, imu |-> imu]

FrameMenu ==
    { Frame("text", "absent", FALSE, NoFsr, NoImu),
      Frame("nonobj", "absent", FALSE, NoFsr, NoImu),
      Frame("obj", "absent", TRUE, ZeroFsr, NoImu),
      Frame("obj", "1", TRUE, NoFsr, NoImu),
      Frame("obj", "1", TRUE, EmptyFsr, NoImu),
      Frame("obj", "2", TRUE, ZeroFsr, WireImu) }

NoFrame == Frame("none", "absent", FALSE, NoFsr, NoImu) @@ [seq |-> 0, conn |-> "none"]

OneHot(c) == [i \in 1..NumLabels |-> IF i = c + 1 THEN 10 ELSE 0]
Outcome(fails, pred, kind, proba) ==
    [fails |-> fails, pred |-> pred, kind |-> kind, proba |-> proba]
AllNames == {"lr", "rf", "dt", "kn", "lr2", "rf2", "dt2", "kn2"}
AllPredict(c) == [n \in AllNames |-> Outcome(FALSE, c, "proba", OneHot(c))]

Env(pre, sc, sc2, o1, o2, rl, rc) ==
    [pre_raises |-> pre, scaler_raises |-> sc, scaler2_raises |-> sc2,
     out1 |-> o1, out2 |-> o2, rand_label |-> rl, rand_conf |-> rc]

\* what the models, the scalers and the random generator do on one call
ServerEnvs ==
    { Env(FALSE, FALSE, FALSE, AllPredict(0), AllPredict(0), 0, F04),
      Env(FALSE, TRUE, FALSE, AllPredict(0), AllPredict(0), 3, F06) }

\* the predictor as loaded at start-up
ServerConfigs ==
    { [models |-> load_ensemble_models({"lr", "rf"}), scaler |-> TRUE,
       models_stage2 |-> {"lr2"}, scaler_stage2 |-> TRUE] }

\* the measured processing time of a frame, in ms
Latencies == {3}

\* ------------------------------------------------------------------------
\* Payloads
\* ------------------------------------------------------------------------
\* round(confidence, 3) of line 107, in thousandths.  The confidence of a
\* vote or of the rule-based classifier is a numpy.float64 (or one of the
\* Python constants 0.3, 0.5, 0.6, 0.9, 0.95, which both roundings leave
\* alone); the pair of the except branch holds a Python float.
Round3(x, numpy) ==
    IF numpy THEN NpRound3(x) ELSE PyRound3(x)

\* round(confidence, 3) of the pair predict_posture returned
round_confidence(r) == Round3(r.conf, ~r.raised)

\* a response that reports the frame as failed
response_data_AsError(frame, r) ==
    [kind |-> "error", id |-> frame.id, posture |-> 0 - 1,
     confidence |-> 0, re |-> frame.seq, conn |-> frame.conn]

\* response_data, lines 104-108
response_data(frame, r) ==
    [kind |-> "success", id |-> frame.id, posture |-> r.label,
     confidence |-> round_confidence(r), re |-> frame.seq, conn |-> frame.conn]

\* an error payload that never echoes the id
error_response_Unknown(frame) ==
    [kind |-> "error", id |-> "unknown",
     posture |-> 0 - 1, confidence |-> 0, re |-> frame.seq, conn |-> frame.conn]

\* error_response of process_sensor_data, lines 134-138: data.get('id', 'unknown')
error_response(frame) ==
    [kind |-> "error", id |-> IF frame.id = "absent" THEN "unknown" ELSE frame.id,
     posture |-> 0 - 1, confidence |-> 0, re |-> frame.seq, conn |-> frame.conn]

\* error_response of handle_client, lines 178-181: no id key
json_error_response(frame) ==
    [kind |-> "error", id |-> "none", posture |-> 0 - 1, confidence |-> 0,
     re |-> frame.seq, conn |-> frame.conn]

NoPayload ==
    [kind |-> "none", id |-> "none", posture |-> 0 - 1, confidence |-> 0,
     re |-> 0, conn |-> "none"]

\* ------------------------------------------------------------------------
\* Helpers on the tables
\* ------------------------------------------------------------------------
Without(f, k) == [x \in DOMAIN f \ {k} |-> f[x]]

\* database.log_client_connection: the insert (is_active defaults to TRUE,
\* disconnect_time to NULL), or nothing when it fails: the exception is
\* logged and swallowed (lines 115-116)
log_client_connection(rows, cid, ok) ==
    IF ok
    THEN Append(rows, [client_id |-> cid, is_active |-> TRUE,
                       disconnect_time |-> FALSE])
    ELSE rows

\* an update that leaves disconnect_time NULL
log_client_disconnection_NoTime(rows, cid, ok) ==
    IF ok
    THEN [i \in DOMAIN rows |->
            IF rows[i].client_id = cid /\ rows[i].is_active
            THEN [rows[i] EXCEPT !.is_active = FALSE]
            ELSE rows[i]]
    ELSE rows

\* database.log_client_disconnection: the update, or nothing when it fails
log_client_disconnection(rows, cid, ok) ==
    IF ok
    THEN [i \in DOMAIN rows |->
            IF rows[i].client_id = cid /\ rows[i].is_active
            THEN [rows[i] EXCEPT !.is_active = FALSE, !.disconnect_time = TRUE]
            ELSE rows[i]]
    ELSE rows

\* a window that stops taking values once it is full
update_performance_stats_KeepFirst(times, ms) ==
    LET t == Append(times, ms)
    IN  IF Len(t) > WindowSize THEN SubSeq(t, 1, WindowSize) ELSE t

\* update_performance_stats: the new response_times
update_performance_stats(times, ms) ==
    LET t == Append(times, ms)
    IN  IF Len(t) > WindowSize
        THEN SubSeq(t, Len(t) - WindowSize + 1, Len(t))
        ELSE t

\* the checks of process_sensor_data before the classifier is called:
\* "ok", or the reason the frame is refused
\*   "json"     json.loads raises JSONDecodeError
\*   "nonobj"   the except branch itself raises (data has no .get)
\*   "invalid"  a ValueError of lines 79-91
Validate(frame) ==
    IF frame.kind = "text" THEN "json"
    ELSE IF frame.kind = "nonobj" THEN "nonobj"
    ELSE IF frame.id = "absent" \/ ~frame.dev \/ frame.fsr.t = "absent"
         THEN "invalid"
    ELSE IF ~validate_model_input(frame.fsr) THEN "invalid"
    ELSE "ok"

\* a lookup that takes the first registered websocket
SendTarget_First(cid) ==
    connected_clients[CHOOSE k \in DOMAIN connected_clients :
                          \A j \in DOMAIN connected_clients : k <= j]

\* the websocket send_to_client writes to (line 148)
SendTarget(cid) == connected_clients[cid]

\* a loop that takes the next frame while a send is still awaited
CanReceive_Eager(c) ==
    pc[c] \in {"wait", "send", "errsend"} /\ running = "none"

\* `async for message in websocket` hands over the next frame only when the
\* task is back at the loop head and the event loop is free
CanReceive(c) == pc[c] = "wait" /\ running = "none"

\* uuid.uuid4(): a value never returned before
uuid4 == nextUuid

NoPrediction ==
    [label |-> 0 - 1, conf |-> FZero, method |-> "none", raised |-> FALSE,
     propagates |-> FALSE, s1 |-> NoResult, s2ran |-> FALSE, s2 |-> NoResult,
     imu_features |-> ZeroImu, model_exc |-> FALSE]

\* ------------------------------------------------------------------------
\* Variables of the classifier specification (SpecPredict)
\* ------------------------------------------------------------------------
VARIABLES
    p_fsr,     \* the pressure list handed to predict_posture
    p_imu,     \* the inertial data handed to predict_posture
    p_env,     \* what models, scalers and random do on this call
    p_result,  \* what predict_posture returned
    p_payload, \* the payload process_sensor_data builds from it
    p_done,    \* TRUE once predict_posture has run
    p_features \* the vector preprocess_data returned on this call

predictVars ==
    <<p_fsr, p_imu, p_env, p_result, p_payload, p_done, p_features>>

\* ------------------------------------------------------------------------
\* Variables of the statistics specification (SpecSessions)
\* ------------------------------------------------------------------------
VARIABLES
    s_history,  \* the rows of posture_predictions, in ORDER BY timestamp order
    s_device,   \* the device_id argument of the last query ("" for None)
    s_sessions, \* what calculate_posture_durations returned
    s_done,     \* TRUE once the request has been served
    s_request,  \* the request served: "none", "sessions", "score", "reset"
    s_date,     \* the date argument of a score request, as a day number
    s_score,    \* what calculate_daily_posture_score returned
    s_reset,    \* the confirm flag and the reply of DELETE /data/reset
    compensated_sum \* TRUE when the interpreter's sum() compensates (see
                \* sum); read by the statistics requests only, so that
                \* the specifications without one start from TRUE

statVars == <<s_history, s_device, s_sessions, s_done,
              s_request, s_date, s_score, s_reset, compensated_sum>>

vars == <<predictorVars, serverVars, predictVars, statVars>>

StatIdle ==
    /\ s_history = <<>>
    /\ s_device = ""
    /\ s_sessions = <<>>
    /\ s_done = FALSE
    /\ s_request = "none"
    /\ s_date = 0
    /\ s_score = <<>>
    /\ s_reset = <<>>

\* ------------------------------------------------------------------------
\* Session manager: initial state
\* ------------------------------------------------------------------------
ServerInit ==
    /\ connected_clients = <<>>
    /\ client_info = <<>>
    /\ total_predictions = 0
    /\ response_times = <<>>
    /\ latency_log = <<>>
    /\ nextUuid = 1
    /\ posture_predictions = <<>>
    /\ client_connections = <<>>
    /\ pc = [c \in Conns |-> "new"]
    /\ client_id = [c \in Conns |-> 0]
    /\ cur = [c \in Conns |-> NoFrame]
    /\ res = [c \in Conns |-> NoPrediction]
    /\ pending = [c \in Conns |-> NoPayload]
    /\ running = "none"
    /\ transport = [c \in Conns |-> "idle"]
    /\ inbox = [c \in Conns |-> <<>>]
    /\ outbox = [c \in Conns |-> <<>>]
    /\ sent = [c \in Conns |-> <<>>]
    /\ steps = [c \in Conns |-> 0]
    /\ disconnect_logged = {}

PredictIdle ==
    /\ p_fsr = <<>>
    /\ p_imu = NoImu
    /\ p_env = Env(FALSE, FALSE, FALSE, AllPredict(0), AllPredict(0), 0, F04)
    /\ p_result = NoPrediction
    /\ p_payload = NoPayload
    /\ p_done = FALSE
    /\ p_features = <<>>

Init ==
    /\ \E cfg \in ServerConfigs :
         /\ models = cfg.models
         /\ scaler = cfg.scaler
         /\ models_stage2 = cfg.models_stage2
         /\ scaler_stage2 = cfg.scaler_stage2
    /\ ServerInit
    /\ PredictIdle
    /\ StatIdle
    /\ compensated_sum = TRUE

\* ------------------------------------------------------------------------
\* The clients and the transport.  The server learns of data or of a close
\* through callbacks of the event loop, which run only while no task holds
\* the loop.
\* ------------------------------------------------------------------------
RECURSIVE SumOver(_, _)
SumOver(f, S) ==
    IF S = {} THEN 0
    ELSE LET x == CHOOSE y \in S : TRUE IN f[x] + SumOver(f, S \ {x})

\* frames sent so far, all clients together
FramesSent == SumOver([c \in Conns |-> Len(sent[c])], Conns)

ClientSend(c) ==
    /\ transport[c] = "open"
    /\ running = "none"
    /\ FramesSent < MaxFrames
    /\ \E f \in FrameMenu :
         LET frame == f @@ [seq |-> Len(sent[c]) + 1, conn |-> c]
         IN  /\ inbox' = [inbox EXCEPT ![c] = Append(@, frame)]
             /\ sent' = [sent EXCEPT ![c] = Append(@, frame)]
    /\ UNCHANGED <<connected_clients, client_info, total_predictions,
                   response_times, latency_log, nextUuid, posture_predictions,
                   client_connections, pc, client_id, cur, res, pending,
                   running, transport, outbox>>
    /\ UNCHANGED <<predictorVars, statVars, predictVars, disconnect_logged, steps>>

ClientClose(c) ==
    /\ transport[c] = "open"
    /\ running = "none"
    /\ transport' = [transport EXCEPT ![c] = "closed"]
    /\ UNCHANGED <<connected_clients, client_info, total_predictions,
                   response_times, latency_log, nextUuid, posture_predictions,
                   client_connections, pc, client_id, cur, res, pending,
                   running, inbox, outbox, sent>>
    /\ UNCHANGED <<predictorVars, statVars, predictVars, disconnect_logged, steps>>

\* ------------------------------------------------------------------------
\* handle_client, one action per stretch between two suspension points
\* ------------------------------------------------------------------------
\* register_client (lines 34-54) up to the first wait of the async for
Connect(c) ==
    /\ pc[c] = "new"
    /\ running = "none"
    /\ transport[c] = "idle"
    /\ LET cid == uuid4
       IN    /\ nextUuid' = nextUuid + 1
             /\ connected_clients' =
                  [k \in DOMAIN connected_clients \cup {cid} |->
                     IF k = cid THEN c ELSE connected_clients[k]]
             /\ client_info' =
                  [k \in DOMAIN client_info \cup {cid} |->
                     IF k = cid THEN 0 ELSE client_info[k]]
             /\ \E ok \in BOOLEAN :
                  client_connections' =
                      log_client_connection(client_connections, cid, ok)
             /\ client_id' = [client_id EXCEPT ![c] = cid]
    /\ pc' = [pc EXCEPT ![c] = "wait"]
    /\ transport' = [transport EXCEPT ![c] = "open"]
    /\ UNCHANGED <<total_predictions, response_times, latency_log, posture_predictions,
                   cur, res, pending, running, inbox, outbox, sent>>
    /\ UNCHANGED <<predictorVars, statVars, predictVars, disconnect_logged, steps>>

\* unregister_client (lines 56-70); ok: the log update succeeds
Unregister(cid, ok) ==
    /\ connected_clients' = Without(connected_clients, cid)
    /\ client_info' = Without(client_info, cid)
    /\ client_connections' = log_client_disconnection(client_connections, cid, ok)
    /\ disconnect_logged' = IF ok THEN disconnect_logged \cup {cid}
                            ELSE disconnect_logged

\* send_to_client up to `await websocket.send` (lines 143-150): returns
\* False at once for an unknown client_id, else suspends in the send
StartSend(c, payload, pcSending, pcSkipped, runSkipped) ==
    IF client_id[c] \in DOMAIN connected_clients
    THEN /\ pending' = [pending EXCEPT ![c] = payload]
         /\ pc' = [pc EXCEPT ![c] = pcSending]
         /\ running' = "none"
    ELSE /\ pending' = [pending EXCEPT ![c] = NoPayload]
         /\ pc' = [pc EXCEPT ![c] = pcSkipped]
         /\ running' = runSkipped

\* the locals of a loop iteration are dead once the task is back at the
\* loop head
Forget(f, c, pcNext, blank) ==
    IF pcNext[c] = "wait" THEN [f EXCEPT ![c] = blank] ELSE f

\* the rest of send_to_client (lines 150-158): the send delivers, or raises
\* ConnectionClosed and the client is unregistered
FinishSend(c) ==
    LET w == SendTarget(client_id[c])
    IN  IF transport[w] = "open"
        THEN /\ outbox' = [outbox EXCEPT ![w] = Append(@, pending[c])]
             /\ UNCHANGED <<connected_clients, client_info, client_connections,
                            disconnect_logged>>
        ELSE /\ outbox' = outbox
             /\ \E ok \in BOOLEAN : Unregister(client_id[c], ok)

\* the async for yields a message: json.loads and the checks of
\* process_sensor_data (lines 168-93, 130-139, 176-185)
Receive(c) ==
    /\ CanReceive(c)
    /\ inbox[c] # <<>>
    /\ LET f == Head(inbox[c])
           v == Validate(f)
       IN  /\ inbox' = [inbox EXCEPT ![c] = Tail(@)]
           /\ IF v = "ok"
              THEN /\ pc' = [pc EXCEPT ![c] = "classify"]
                   /\ running' = c
                   /\ pending' = pending
              ELSE IF v = "nonobj"
              THEN UNCHANGED <<pc, running, pending>>
              ELSE StartSend(c, IF v = "json" THEN json_error_response(f)
                                ELSE error_response(f),
                             "errsend", "wait", "none")
           /\ cur' = Forget([cur EXCEPT ![c] = f], c, pc', NoFrame)
    /\ UNCHANGED <<res, connected_clients, client_info, total_predictions,
                   response_times, latency_log, nextUuid, posture_predictions,
                   client_connections, client_id, transport, outbox, sent>>
    /\ UNCHANGED <<predictorVars, statVars, predictVars, disconnect_logged>>
    /\ steps' = [steps EXCEPT ![c] = @ + 1]

\* predictor.predict_posture runs on the event loop (lines 96-111)
Classify(c) ==
    /\ pc[c] = "classify"
    /\ running = c
    /\ \E env \in ServerEnvs :
         \E r \in {predict_posture(cur[c].fsr.v, cur[c].imu, env)} :
             /\ IF r.propagates
                THEN StartSend(c, error_response(cur[c]), "errsend", "wait", "none")
                ELSE StartSend(c, response_data(cur[c], r), "send", "append", c)
             /\ res' = Forget([res EXCEPT ![c] = r], c, pc', NoPrediction)
    /\ cur' = Forget(cur, c, pc', NoFrame)
    /\ UNCHANGED <<connected_clients, client_info, total_predictions,
                   response_times, latency_log, nextUuid, posture_predictions,
                   client_connections, client_id, transport, inbox,
                   outbox, sent>>
    /\ UNCHANGED <<predictorVars, statVars, predictVars, disconnect_logged>>
    /\ steps' = [steps EXCEPT ![c] = @ + 1]

\* the send of the result completes (line 111); save_prediction starts
SendResult(c) ==
    /\ pc[c] = "send"
    /\ running = "none"
    /\ FinishSend(c)
    /\ pc' = [pc EXCEPT ![c] = "append"]
    /\ running' = c
    /\ UNCHANGED <<total_predictions, response_times, latency_log, nextUuid,
                   posture_predictions, client_id, cur, res, pending,
                   transport, inbox, sent>>
    /\ UNCHANGED <<predictorVars, statVars, predictVars>>
    /\ steps' = [steps EXCEPT ![c] = @ + 1]

\* db.save_prediction, the statistics, and the except branch when one of
\* them raises (lines 114-139)
SavePrediction(c) ==
    /\ pc[c] = "append"
    /\ running = c
    /\ \E ok \in BOOLEAN, ms \in Latencies :
         IF ok
         THEN /\ posture_predictions' =
                   Append(posture_predictions,
                          [client_id |-> client_id[c], posture |-> res[c].label,
                           confidence |-> res[c].conf, seq |-> cur[c].seq])
              /\ total_predictions' = total_predictions + 1
              /\ response_times' = update_performance_stats(response_times, ms)
              /\ latency_log' = Append(latency_log, ms)
              /\ IF client_id[c] \in DOMAIN client_info
                 THEN /\ client_info' =
                           [client_info EXCEPT ![client_id[c]] = @ + 1]
                      /\ pc' = [pc EXCEPT ![c] = "wait"]
                      /\ running' = "none"
                      /\ pending' = [pending EXCEPT ![c] = NoPayload]
                 ELSE /\ client_info' = client_info
                      /\ StartSend(c, error_response(cur[c]), "errsend", "wait", "none")
         ELSE /\ UNCHANGED <<posture_predictions, total_predictions,
                             response_times, latency_log, client_info>>
              /\ StartSend(c, error_response(cur[c]), "errsend", "wait", "none")
    /\ cur' = Forget(cur, c, pc', NoFrame)
    /\ res' = Forget(res, c, pc', NoPrediction)
    /\ UNCHANGED <<connected_clients, nextUuid, client_connections, client_id,
                   transport, inbox, outbox, sent>>
    /\ UNCHANGED <<predictorVars, statVars, predictVars, disconnect_logged>>
    /\ steps' = [steps EXCEPT ![c] = @ + 1]

\* the send of an error payload completes (lines 139, 182)
SendError(c) ==
    /\ pc[c] = "errsend"
    /\ running = "none"
    /\ FinishSend(c)
    /\ pc' = [pc EXCEPT ![c] = "wait"]
    /\ cur' = [cur EXCEPT ![c] = NoFrame]
    /\ res' = [res EXCEPT ![c] = NoPrediction]
    /\ pending' = [pending EXCEPT ![c] = NoPayload]
    /\ UNCHANGED <<total_predictions, response_times, latency_log, nextUuid,
                   posture_predictions, client_id, running,
                   transport, inbox, sent>>
    /\ UNCHANGED <<predictorVars, statVars, predictVars>>
    /\ steps' = [steps EXCEPT ![c] = @ + 1]

\* the async for ends on a closed connection; finally: unregister_client
EndOfStream(c) ==
    /\ pc[c] = "wait"
    /\ running = "none"
    /\ inbox[c] = <<>>
    /\ transport[c] = "closed"
    /\ \E ok \in BOOLEAN : Unregister(client_id[c], ok)
    /\ pc' = [pc EXCEPT ![c] = "done"]
    /\ UNCHANGED <<total_predictions, response_times, latency_log, nextUuid,
                   posture_predictions, client_id, cur, res, pending, running,
                   transport, inbox, outbox, sent>>
    /\ UNCHANGED <<predictorVars, statVars, predictVars>>
    /\ steps' = [steps EXCEPT ![c] = @ + 1]

Next ==
    \E c \in Conns :
        \/ ClientSend(c)
        \/ ClientClose(c)
        \/ Connect(c)
        \/ Receive(c)
        \/ Classify(c)
        \/ SendResult(c)
        \/ SavePrediction(c)
        \/ SendError(c)
        \/ EndOfStream(c)

Spec == Init /\ [][Next]_vars

\* ------------------------------------------------------------------------
\* Vocabulary of the session-manager claims
\* ------------------------------------------------------------------------
\* frames of c the async for has handed to the task so far
Taken(c) == Len(sent[c]) - Len(inbox[c])

\* frames of c whose loop iteration has ended
Handled(c) == IF cur[c] = NoFrame THEN Taken(c) ELSE Taken(c) - 1

\* the payloads delivered on websocket w in reply to its n-th frame
Replies(w, n) == SelectSeq(outbox[w], LAMBDA p : p.re = n)

\* c is in both live tables
Live(c) ==
    /\ client_id[c] \in DOMAIN connected_clients
    /\ client_id[c] \in DOMAIN client_info

\* the id an error payload should carry for frame f
IdOrUnknown(f) == IF f.id = "absent" THEN "unknown" ELSE f.id

MissingFsrWithId(f) == f.kind = "obj" /\ f.id # "absent" /\ f.fsr.t = "absent"

\* C1 (as claimed): every handled frame that failed its checks on a
\* connection whose transport is still open has been answered on that
\* connection by exactly one error payload whose id is the frame's id, or
\* "unknown" when it has none.
C1_ErrorPayloadCarriesId ==
    \A c \in Conns : \A n \in 1..Handled(c) :
        (transport[c] = "open" /\ Validate(sent[c][n]) # "ok") =>
            /\ Len(Replies(c, n)) = 1
            /\ Replies(c, n)[1].kind = "error"
            /\ Replies(c, n)[1].id = IdOrUnknown(sent[c][n])

\* C2: a frame with an id and no FSR is answered by an error payload with
\* that id and leaves the client in the live tables; a valid frame handled
\* on the same open connection, before or after it, is answered first by a
\* success payload carrying its own id, a label and a confidence.
C2_MalformedThenValid ==
    \A c \in Conns : \A n \in 1..Handled(c) :
        transport[c] = "open" =>
            /\ Live(c)
            /\ MissingFsrWithId(sent[c][n]) =>
                   /\ Len(Replies(c, n)) = 1
                   /\ Replies(c, n)[1].kind = "error"
                   /\ Replies(c, n)[1].id = sent[c][n].id
            /\ Validate(sent[c][n]) = "ok" =>
                   /\ Len(Replies(c, n)) >= 1
                   /\ Replies(c, n)[1].kind = "success"
                   /\ Replies(c, n)[1].id = sent[c][n].id
                   /\ Replies(c, n)[1].posture \in 0..(NumLabels - 1)
                   /\ Replies(c, n)[1].confidence \in 0..1000

\* a missing-FSR frame was answered with its id and the valid frame after it
\* with a success payload, the client still registered
C2_Witness ==
    \E c \in Conns :
        /\ transport[c] = "open" /\ Live(c) /\ Handled(c) = 2
        /\ MissingFsrWithId(sent[c][1])
        /\ Validate(sent[c][2]) = "ok"
        /\ Len(outbox[c]) = 2
        /\ outbox[c][1].kind = "error" /\ outbox[c][1].id = sent[c][1].id
        /\ outbox[c][2].kind = "success" /\ outbox[c][2].id = sent[c][2].id

\* C3: a connection's task takes the next frame only when no frame of that
\* connection is in flight, and every payload it delivers answers the frame
\* taken last: replies leave in arrival order, each before the next frame's
\* classification starts.
C3_Step ==
    \A c \in Conns :
        /\ Len(inbox'[c]) < Len(inbox[c]) =>
               /\ pc[c] = "wait"
               /\ cur[c] = NoFrame
               /\ pending[c] = NoPayload
        /\ \A w \in Conns :
               (pc[c] \in {"send", "errsend"} /\ pc'[c] # pc[c]
                  /\ Len(outbox'[w]) > Len(outbox[w])) =>
                   /\ w = c
                   /\ outbox'[w][Len(outbox'[w])].re = Taken(c)
                   /\ cur[c].seq = Taken(c)

C3_InOrder == [][C3_Step]_vars

\* two frames of one connection were answered one after the other
C3_Witness ==
    \E c \in Conns :
        /\ Len(outbox[c]) >= 2
        /\ outbox[c][1].re = 1
        /\ outbox[c][2].re = 2

\* C4: every payload delivered on a websocket answers a frame that was
\* received on that websocket and, when that frame has an id, carries it.
C4_OwnResponses ==
    \A w \in Conns : \A i \in 1..Len(outbox[w]) :
        LET p == outbox[w][i]
        IN  /\ p.conn = w
            /\ p.re \in 1..Taken(w)
            /\ sent[w][p.re].id # "absent" /\ p.id # "none" =>
                   p.id = sent[w][p.re].id
            /\ p.kind = "success" => p.id = sent[w][p.re].id

\* both connections have been answered
C4_Witness ==
    \A w \in Conns : \E i \in 1..Len(outbox[w]) : outbox[w][i].kind = "success"

\* C5 (as claimed): while one connection is inside predict_posture or
\* save_prediction, a frame waiting on another connection can be received.
C5_NoStall ==
    \A c1, c2 \in Conns :
        (c1 # c2 /\ pc[c1] \in {"classify", "append"}
           /\ pc[c2] = "wait" /\ inbox[c2] # <<>>) => ENABLED Receive(c2)

\* ------------------------------------------------------------------------
\* Disconnection
\* ------------------------------------------------------------------------
\* one step of the handle_client task of c
TaskStep(c) ==
    \/ Receive(c)
    \/ Classify(c)
    \/ SendResult(c)
    \/ SavePrediction(c)
    \/ SendError(c)
    \/ EndOfStream(c)

\* the task of c can run: it holds the event loop, or the loop is free and
\* what the task awaits (a send, a frame, the end of the stream) is there
Ready(c) ==
    \/ running = c /\ pc[c] \in {"classify", "append"}
    \/ /\ running = "none"
       /\ \/ pc[c] \in {"send", "errsend"}
          \/ pc[c] = "wait" /\ (inbox[c] # <<>> \/ transport[c] = "closed")

\* a step of the task of c, told by its step counter
TaskRuns(c) == Ready(c) /\ steps' = [steps EXCEPT ![c] = @ + 1]

\* the event loop runs every task that is ready
FairSpec == Spec /\ \A c \in Conns : WF_steps(TaskRuns(c))

\* the client_ids register_client has handed out
Issued == 1..(nextUuid - 1)

Absent(cid) ==
    /\ cid \notin DOMAIN connected_clients
    /\ cid \notin DOMAIN client_info

\* every connection record of cid is inactive and has a disconnect time
RecordClosed(cid) ==
    \A i \in DOMAIN client_connections :
        client_connections[i].client_id = cid =>
            /\ ~client_connections[i].is_active
            /\ client_connections[i].disconnect_time

NeverReenters ==
    \A cid \in Issued :
        /\ cid \notin DOMAIN connected_clients
              => cid \notin DOMAIN connected_clients'
        /\ cid \notin DOMAIN client_info => cid \notin DOMAIN client_info'

\* C6 (as claimed): when the handler of a closed connection has finished,
\* so that nothing will run for that connection any more, its client_id is
\* absent from both live tables and its connection record is inactive with
\* a disconnect time.
C6_AsClaimed ==
    \A c \in Conns :
        pc[c] = "done" =>
            /\ Absent(client_id[c])
            /\ RecordClosed(client_id[c])

\* C6 (amended): once the transport of a connection is closed, its client_id
\* is eventually absent from both live tables; a client_id that has left a
\* live table never re-enters it; a finished handler leaves no entry behind;
\* and the connection record is inactive with a disconnect time from the
\* moment a log_client_disconnection update for it commits (a failed update
\* is only logged and leaves the record active; a connection whose insert
\* failed has no record).
C6_Disconnect ==
    /\ \A c \in Conns : (transport[c] = "closed") ~> Absent(client_id[c])
    /\ [][NeverReenters]_vars
    /\ [](\A c \in Conns : pc[c] = "done" => Absent(client_id[c]))
    /\ [](\A cid \in disconnect_logged : RecordClosed(cid))

\* a send found the connection closed and unregistered the client while the
\* handler was still running, and the record was closed
C6_Witness ==
    \E c \in Conns :
        /\ transport[c] = "closed"
        /\ pc[c] \notin {"done", "new"}
        /\ Absent(client_id[c])
        /\ client_id[c] \in disconnect_logged
        /\ \E i \in DOMAIN client_connections :
               client_connections[i].client_id = client_id[c]
        /\ RecordClosed(client_id[c])

\* ------------------------------------------------------------------------
\* The durable log and the response path
\* ------------------------------------------------------------------------
\* a success payload for the frame in flight on c has been delivered on c
ResultDelivered(c) ==
    \E i \in 1..Len(outbox[c]) :
        /\ outbox[c][i].kind = "success"
        /\ outbox[c][i].re = cur[c].seq
        /\ outbox[c][i].id = cur[c].id
        /\ outbox[c][i].posture = res[c].label
        /\ outbox[c][i].confidence = round_confidence(res[c])

\* the step in which save_prediction raises for the frame of c
SaveFails(c) ==
    /\ pc[c] = "append"
    /\ pc'[c] # "append"
    /\ posture_predictions' = posture_predictions

\* C7: when save_prediction raises for a frame whose result was sent on an
\* open connection, the success payload of that frame has already been
\* delivered to its client, and the client is still in both live tables
\* afterwards, its task still running.
C7_Step ==
    \A c \in Conns :
        (SaveFails(c) /\ client_id[c] \in DOMAIN connected_clients) =>
            /\ ResultDelivered(c)
            /\ Live(c)'
            /\ transport'[c] = "open"
            /\ pc'[c] = "errsend"

C7_SaveFailureNotFatal == [][C7_Step]_vars

\* save_prediction has failed for a delivered result and the task goes on
C7_Witness ==
    \E c \in Conns :
        /\ pc[c] = "errsend"
        /\ res[c] # NoPrediction
        /\ ResultDelivered(c)
        /\ Live(c)

\* C9 (as claimed): a posture_predictions row exists only for a frame whose
\* success payload was delivered; a result whose send found the connection
\* closed leaves no row.
C9_NoRowForUndelivered ==
    \A i \in DOMAIN posture_predictions :
        \E c \in Conns :
            /\ client_id[c] = posture_predictions[i].client_id
            /\ \E j \in 1..Len(outbox[c]) :
                   /\ outbox[c][j].kind = "success"
                   /\ outbox[c][j].re = posture_predictions[i].seq

\* ------------------------------------------------------------------------
\* The classifier on its own: one predict_posture call per step, on every
\* loaded configuration, input and behaviour of models, scalers and random
\* ------------------------------------------------------------------------
\* pressure lists: no pressure (label 0), a forward-left pattern (label 1),
\* a short list that is padded (label 7)
PredictFsrs ==
    { ZeroFsr.v,
      <<2, 2, 2, 2, 1, 2, 2, 1, 1, 1, 1>>,
      <<5>> }

PredictImus ==
    { NoImu,
      [kind |-> "empty", v |-> ZeroImu],
      WireImu }

\* what the stage-1 models do on a call
Stage1Outcomes ==
    { AllPredict(0), AllPredict(1), AllPredict(4),
      [AllPredict(0) EXCEPT !["lr"] = Outcome(TRUE, 0, "proba", OneHot(0))],
      [n \in AllNames |-> Outcome(TRUE, 0, "proba", OneHot(0))],
      [AllPredict(0) EXCEPT !["lr"] = Outcome(FALSE, 9, "proba_raises", OneHot(0)),
                            !["rf"] = Outcome(TRUE, 0, "proba", OneHot(0))],
      [n \in AllNames |-> Outcome(FALSE, 1, "noproba", OneHot(1))],
      [AllPredict(0) EXCEPT !["lr"] = Outcome(FALSE, 1, "noproba", OneHot(1))],
      [n \in AllNames |-> Outcome(FALSE, 0 - 1, "noproba", OneHot(0))],
      [AllPredict(0) EXCEPT
          !["lr"] = Outcome(FALSE, 2, "proba", <<0, 3, 7, 0, 0, 0, 0, 0>>),
          !["rf"] = Outcome(FALSE, 0, "proba", <<7, 2, 1, 0, 0, 0, 0, 0>>)] }

\* what the stage-2 models do on a call
Stage2Outcomes ==
    { AllPredict(0), AllPredict(3),
      [AllPredict(3) EXCEPT !["lr2"] = Outcome(TRUE, 3, "proba", OneHot(3))],
      [AllPredict(3) EXCEPT !["rf2"] = Outcome(FALSE, 5, "proba", OneHot(5))],
      [n \in AllNames |-> Outcome(TRUE, 0, "proba", OneHot(0))],
      [n \in AllNames |-> Outcome(FALSE, 5, "proba_raises", OneHot(5))],
      [AllPredict(3) EXCEPT !["lr2"] = Outcome(FALSE, 5, "noproba", OneHot(5))],
      [AllPredict(3) EXCEPT
          !["lr2"] = Outcome(FALSE, 0, "proba", <<6, 0, 0, 4, 0, 0, 0, 0>>),
          !["rf2"] = Outcome(FALSE, 3, "proba", <<2, 0, 0, 8, 0, 0, 0, 0>>)] }

\* where an exception leaves the try block: nowhere, in preprocess_data, in
\* scaler.transform, in scaler_stage2.transform
RaisePoints ==
    { <<FALSE, FALSE, FALSE>>, <<TRUE, FALSE, FALSE>>,
      <<FALSE, TRUE, FALSE>>, <<FALSE, FALSE, TRUE>> }

\* random.randint(0, 7) and random.uniform(0.4, 0.8)
RandomDraws == { <<0, F04>>, <<7, F08>> }

\* what the models do on the calls on which an exception may leave the try
\* block: every model answers, or every model raises
RaisedOutcomes1 ==
    { AllPredict(0), AllPredict(1),
      [n \in AllNames |-> Outcome(TRUE, 0, "proba", OneHot(0))] }

RaisedOutcomes2 == { AllPredict(0), AllPredict(3) }

\* the calls on which nothing leaves the try block, with every behaviour of
\* the models (the random draw is not used), and the calls with each raise
\* point and each draw
PredictEnvs ==
    { Env(FALSE, FALSE, FALSE, o1, o2, 0, F04) :
        o1 \in Stage1Outcomes, o2 \in Stage2Outcomes }
    \cup { Env(x[1], x[2], x[3], o1, o2, d[1], d[2]) :
              x \in RaisePoints, o1 \in RaisedOutcomes1,
              o2 \in RaisedOutcomes2, d \in RandomDraws }

\* the files found at start-up
PredictConfigs ==
    { [models |-> load_ensemble_models(m), scaler |-> sc,
       models_stage2 |-> m2, scaler_stage2 |-> sc2] :
        m \in {{}, {"lr"}, {"lr", "rf"}}, sc \in BOOLEAN,
        m2 \in {{}, {"lr2", "rf2"}}, sc2 \in BOOLEAN }

\* the frame process_sensor_data holds when it calls predict_posture
PredictFrame(fsr, imu) ==
    Frame("obj", "7", TRUE, [t |-> "list", v |-> fsr, nonnum |-> FALSE], imu)
        @@ [seq |-> 1, conn |-> "w1"]

PInit ==
    /\ \E cfg \in PredictConfigs :
         /\ models = cfg.models
         /\ scaler = cfg.scaler
         /\ models_stage2 = cfg.models_stage2
         /\ scaler_stage2 = cfg.scaler_stage2
    /\ ServerInit
    /\ PredictIdle
    /\ StatIdle
    /\ compensated_sum = TRUE

\* lines 96-108 of process_sensor_data around one predict_posture call
Predict(fsr, imu, env) ==
    /\ ~p_done
    /\ validate_model_input([t |-> "list", v |-> fsr, nonnum |-> FALSE])
    /\ p_fsr' = fsr
    /\ p_imu' = imu
    /\ p_env' = env
    /\ \E r \in {predict_posture(fsr, imu, env)} :
         /\ p_result' = r
         /\ p_payload' = IF r.propagates
                         THEN error_response(PredictFrame(fsr, imu))
                         ELSE response_data(PredictFrame(fsr, imu), r)
    /\ p_done' = TRUE
    /\ p_features' = IF env.pre_raises THEN <<>> ELSE preprocess_data(fsr)
    /\ UNCHANGED <<predictorVars, statVars, serverVars>>

\* the caller has taken the result; the predictor waits for the next call
Return ==
    /\ p_done
    /\ p_fsr' = <<>>
    /\ p_imu' = NoImu
    /\ p_env' = Env(FALSE, FALSE, FALSE, AllPredict(0), AllPredict(0), 0, F04)
    /\ p_result' = NoPrediction
    /\ p_payload' = NoPayload
    /\ p_done' = FALSE
    /\ p_features' = <<>>
    /\ UNCHANGED <<predictorVars, statVars, serverVars>>

PNext ==
    \/ \E fsr \in PredictFsrs, imu \in PredictImus, env \in PredictEnvs :
          Predict(fsr, imu, env)
    \/ Return

SpecPredict == PInit /\ [][PNext]_vars

\* an exception reached the handler of predict_posture on this call
ExceptionEscapes ==
    \/ p_env.pre_raises
    \/ UseEnsemble /\ scaler /\ p_env.scaler_raises
    \/ /\ p_result.s2ran
       /\ scaler_stage2 /\ p_env.scaler2_raises

InRandomRange(conf) == FLe(F04, conf) /\ FLe(conf, F08)

\* C8 (as claimed): whenever an exception was raised inside predict_posture,
\* in preprocessing, a transform or a model of either vote, the label is in
\* 0..7, the confidence in [0.4, 0.8] and the payload a success payload.
C8_AsClaimed ==
    (p_done /\ (p_result.raised \/ p_result.model_exc)) =>
        /\ ~p_result.propagates
        /\ p_result.label \in 0..(NumLabels - 1)
        /\ InRandomRange(p_result.conf)
        /\ p_payload.kind = "success"

\* C8 (amended): predict_posture never raises and the payload is a success
\* payload with a label in 0..7.  An exception that reaches its handler
\* (preprocessing or a scaler's transform) gives the random pair, whose
\* confidence is in [0.4, 0.8].  An exception of a single model is caught in
\* the vote: the model is skipped and the voted or rule-based result is
\* returned, with a confidence in [0.3, 0.95].
C8_NeverRaises ==
    p_done =>
        /\ ~p_result.propagates
        /\ p_result.label \in 0..(NumLabels - 1)
        /\ p_payload.kind = "success"
        /\ p_payload.id = "7"
        /\ p_payload.posture = p_result.label
        /\ p_result.raised <=> ExceptionEscapes
        /\ p_result.raised =>
               /\ p_result.method = "random"
               /\ p_result.label = p_env.rand_label
               /\ InRandomRange(p_result.conf)
        /\ ~p_result.raised =>
               /\ p_result.method # "random"
               /\ FLe(F03, p_result.conf)
               /\ FLe(p_result.conf, F095)

\* a scaler's transform raised and the client got the random pair in a
\* success payload
C8_Witness ==
    /\ p_done
    /\ p_env.scaler_raises
    /\ p_result.raised
    /\ p_result.label = 7
    /\ p_payload.kind = "success"
    /\ p_payload.confidence = 800

\* the stage-1 result of the call, computed apart from predict_posture
Stage1Result ==
    IF UseEnsemble
    THEN LabelConf(ensemble_predict(preprocess_data(p_fsr), p_env))
    ELSE analyze_fsr_pattern(preprocess_data(p_fsr))

\* what C10 says of a call whose gate (stage-1 label 0 or 1, non-empty
\* inertial data, a stage-2 model loaded) is gate and whose range-checked
\* stage-1 result is plain
GateHolds(gate, plain) ==
    /\ p_result.s2ran => gate
    /\ p_result.raised => gate
    /\ LabelConf(p_result) # plain => gate
    /\ p_result.method \in {"ensemble_stage1_+_stage2",
                            "rule_based_stage1_+_stage2"} => gate
    /\ ~ImuTruthy(p_imu) =>
           /\ ~p_result.s2ran
           /\ LabelConf(p_result) = plain

\* C10: when the call returns normally, stage 2 has run, or the result
\* differs from the range-checked stage-1 result, only if the stage-1 label
\* is 0 or 1, the inertial data is non-empty and a stage-2 model is loaded;
\* without inertial data stage 2 never runs and the result is the
\* range-checked stage-1 result.
C10_Stage2Gate ==
    (p_done /\ ~p_env.pre_raises /\ ~(UseEnsemble /\ scaler /\ p_env.scaler_raises)) =>
        GateHolds(Stage1Result.label \in {0, 1} /\ ImuTruthy(p_imu)
                      /\ models_stage2 # {},
                  RangeCheck(Stage1Result))

\* stage 2 ran on inertial data and replaced a stage-1 label 0 by label 3
C10_Witness ==
    /\ p_done
    /\ p_result.s2ran
    /\ ImuTruthy(p_imu)
    /\ Stage1Result.label = 0
    /\ p_result.label = 3
    /\ p_result.method = "ensemble_stage1_+_stage2"

\* the stage-2 result of the call, computed apart from predict_posture
Stage2Result ==
    LabelConf(stage2_predict(preprocess_imu_data(p_imu), p_env))

\* the stage-2 pair s2 has a label other than 0 and a confidence strictly
\* greater than 0.6
Overriding(s2) == s2.label # 0 /\ FLt(F06, s2.conf)

\* what C11 says of a call whose stage results are s1 and s2
OverrideHolds(s1, s2) ==
    /\ Overriding(s2) => LabelConf(p_result) = s2
    /\ ~Overriding(s2) => LabelConf(p_result) = s1
    /\ s2.label = 0 => LabelConf(p_result) = s1

\* C11: when stage 2 has run and returned, the returned pair is the stage-2
\* pair if the stage-2 label is not 0 and the stage-2 confidence is strictly
\* greater than 0.6, and the stage-1 pair otherwise; a stage-2 label 0 never
\* changes the result.
C11_OverrideRule ==
    (p_done /\ p_result.s2ran /\ ~p_result.raised) =>
        OverrideHolds(Stage1Result, Stage2Result)

\* stage 2 returned a label other than 0 with a confidence of exactly 0.6
\* and the stage-1 pair was returned
C11_Witness ==
    /\ p_done
    /\ p_result.s2ran
    /\ ~p_result.raised
    /\ Stage2Result = [label |-> 5, conf |-> F06]
    /\ LabelConf(p_result) = Stage1Result
    /\ p_result.label = 1

\* the rule-based classifier on the normalized pressure vector of the call
RuleBasedResult == analyze_fsr_pattern(preprocess_data(p_fsr))

\* stage 1 returned on this call: no exception left preprocessing or the
\* stage-1 transform
Stage1Returned ==
    /\ p_done
    /\ ~p_env.pre_raises
    /\ ~(UseEnsemble /\ scaler /\ p_env.scaler_raises)

\* every loaded stage-1 model fails on this call, in predict or in
\* predict_proba
AllStage1ModelsFail ==
    \A n \in models \ {"rule_based"} :
        p_env.out1[n].fails \/ p_env.out1[n].kind = "proba_raises"

\* C12 (as claimed): when no stage-1 model is loaded, or every loaded one
\* fails in its predict or its probability call, the stage-1 pair is the
\* rule-based classifier's pair for the normalized pressure vector.
C12_RuleBasedWhenAllFail ==
    (Stage1Returned /\ (models = {"rule_based"} \/ AllStage1ModelsFail)) =>
        p_result.s1 = RuleBasedResult

\* C13 (as claimed): when the stage-1 normalization transform raises, the
\* returned pair is the rule-based classifier's pair for the frame.
C13_RuleBasedWhenEnsembleRaises ==
    (p_done /\ ~p_env.pre_raises /\ UseEnsemble /\ scaler
       /\ p_env.scaler_raises) =>
        LabelConf(p_result) = RuleBasedResult

\* C14: every pair predict_posture returns has a label in 0..7 and a
\* confidence between 0 and 1.
C14_ResultInRange ==
    p_done =>
        /\ p_result.label \in 0..(NumLabels - 1)
        /\ FLe(FZero, p_result.conf)
        /\ FLe(p_result.conf, F1)

\* the degenerate majority vote gave the out-of-range label 9 and the call
\* returned (0, 0.5)
C14_Witness ==
    /\ p_done
    /\ ~p_result.raised
    /\ p_result.s1.label = 9
    /\ p_result.label = 0
    /\ p_result.conf = F05

\* C18 (as claimed): when stage 2 runs on a frame whose inertial data is in
\* the wire format, the vector handed to the stage-2 models is
\* (ax, ay, az, gx, gy, gz).
C18_WireImuVector ==
    (p_done /\ p_result.s2ran /\ ~p_result.raised /\ p_imu.kind = "wire") =>
        p_result.imu_features = p_imu.v

\* ------------------------------------------------------------------------
\* Rule-based specification (SpecRule): a predictor that found no model
\* file classifies frames without inertial data
\* ------------------------------------------------------------------------
MaxFsrLen == 12

\* the pressure list src/simple_test.py sends
SimpleTestFsr == <<489, 625, 581, 483, 375, 517, 571, 530, 372, 398, 248>>

\* lists with larger readings: equal left and right sums of 44 under a
\* forward pattern, and ratios of 303/200 and 307/200 to the left and to
\* the right
LargeFsrs ==
    { <<12, 12, 12, 8, 0, 22, 22, 0, 0, 0, 0>>,
      <<303, 0, 0, 0, 0, 200, 0, 0, 0, 0, 0>>,
      <<200, 0, 0, 0, 0, 307, 0, 0, 0, 0, 0>> }

\* the readings of the lists with negative values
MaxReading == 3
SignedReadings == (0 - MaxReading)..MaxReading

\* lists with negative readings: a sensor of each quarter of the seat (left
\* front 0, left back 3, right front 5, right back 8) reads a value of
\* either sign, the others read 0
SignedFsrs ==
    { [i \in 1..ExpectedFsrSize |->
          CASE i = 1 -> lf [] i = 4 -> lb [] i = 6 -> rf [] i = 9 -> rb
            [] OTHER -> 0] :
      lf \in SignedReadings, lb \in SignedReadings,
      rf \in SignedReadings, rb \in SignedReadings }

\* every list of 1..MaxFsrLen readings that are 0 or 1, the test's list,
\* the lists with larger readings and the lists with negative readings
RuleFsrs ==
    UNION { [1..n -> {0, 1}] : n \in 1..MaxFsrLen }
        \cup {SimpleTestFsr} \cup LargeFsrs \cup SignedFsrs

\* nothing raises on the call
QuietEnv ==
    Env(FALSE, FALSE, FALSE, AllPredict(0), AllPredict(0), 0, F04)

RInit ==
    /\ models = load_ensemble_models({})
    /\ scaler = FALSE
    /\ models_stage2 = {}
    /\ scaler_stage2 = FALSE
    /\ ServerInit
    /\ PredictIdle
    /\ StatIdle
    /\ compensated_sum = TRUE

\* one frame without IMU data is classified
RuleCall ==
    /\ ~p_done
    /\ \E fsr \in RuleFsrs : Predict(fsr, NoImu, QuietEnv)

RNext == RuleCall \/ Return

SpecRule == RInit /\ [][RNext]_vars

\* C15 (as claimed): with no learned model loaded and no IMU data, the list
\* of src/simple_test.py is classified by the rule-based path as label 0
\* with a confidence in [0.3, 0.95].
C15_SimpleTestBalanced ==
    (p_done /\ p_fsr = SimpleTestFsr) =>
        /\ p_result.method = "rule_based_stage1"
        /\ p_result.label = 0
        /\ FLe(F03, p_result.conf)
        /\ FLe(p_result.conf, F095)

AllZero(f) == \A i \in 1..Len(f) : f[i] = 0

\* C16: for every pressure vector whose values are all zero the rule-based
\* classifier returns label 0 with confidence exactly 0.5.
C16_ZeroPressure ==
    (p_done /\ AllZero(p_fsr)) =>
        /\ p_result.s1 = [label |-> 0, conf |-> F05]
        /\ analyze_fsr_pattern(p_fsr) = [label |-> 0, conf |-> F05]

\* a list of four zeros was classified as (0, 0.5)
C16_Witness ==
    /\ p_done
    /\ p_fsr = <<0, 0, 0, 0>>
    /\ p_result.method = "rule_based_stage1"
    /\ LabelConf(p_result) = [label |-> 0, conf |-> F05]

\* C17: for every non-empty pressure list preprocess_data returns a vector
\* of length exactly 11: a shorter list in order followed by zeros, the
\* first 11 values of a longer list in order, a list of length 11 unchanged.
C17_PadOrTruncate ==
    (p_done /\ Len(p_fsr) > 0) =>
        /\ Len(p_features) = ExpectedFsrSize
        /\ Len(p_fsr) < ExpectedFsrSize =>
             /\ SubSeq(p_features, 1, Len(p_fsr)) = p_fsr
             /\ \A i \in (Len(p_fsr) + 1)..ExpectedFsrSize : p_features[i] = 0
        /\ Len(p_fsr) > ExpectedFsrSize =>
             p_features = SubSeq(p_fsr, 1, ExpectedFsrSize)
        /\ Len(p_fsr) = ExpectedFsrSize => p_features = p_fsr

\* a list of 12 readings came back without its last one
C17_Witness ==
    /\ p_done
    /\ p_fsr = <<1, 0, 0, 0, 0, 0, 0, 0, 0, 0, 0, 1>>
    /\ p_features = <<1, 0, 0, 0, 0, 0, 0, 0, 0, 0, 0>>

\* ------------------------------------------------------------------------
\* Statistics (src/statistics_api.py): posture sessions
\* ------------------------------------------------------------------------
MaxRecords == 4

\* A stored timestamp is a text: fmt "sql" is '%Y-%m-%d %H:%M:%S' (what
\* CURRENT_TIMESTAMP writes), fmt "iso" is datetime.isoformat(); t is the
\* instant it denotes, in seconds.
SqlTime(t) == [fmt |-> "sql", t |-> t]

\* datetime.strptime(text, '%Y-%m-%d %H:%M:%S'): the instant of a text in
\* that format (any other text raises ValueError)
strptime(text) == text.t

\* datetime.isoformat()
isoformat(t) == [fmt |-> "iso", t |-> t]

\* struct.unpack('<Q' / '<I' / '<H' / '<B'): the unsigned number whose
\* little-endian bytes are given
RECURSIVE LittleEndian(_)
LittleEndian(bytes) ==
    IF bytes = <<>> THEN 0
    ELSE Head(bytes) + 256 * LittleEndian(Tail(bytes))

\* int(x) of the float r[1] / r[2]: the fraction cut off towards zero
Truncate(r) ==
    IF r[1] >= 0 THEN r[1] \div r[2] ELSE 0 - ((0 - r[1]) \div r[2])

\* safe_int_convert.  A stored label is
\*   "bytes"  a blob, v its bytes (sqlite keeps a numpy integer as its 8
\*            little-endian bytes): read as an unsigned number when it has
\*            8, 4, 2 or 1 bytes, else its first byte; nothing unpacks from
\*            an empty blob (struct.error) and the answer is 0
\*   "int"    an int v
\*   "float"  a float, v the fraction it holds
\*   "str"    a text that spells the int v
\*   any other kind (a text that spells no int, None): 0
safe_int_convert(value) ==
    IF value.kind = "bytes"
    THEN IF Len(value.v) \in {1, 2, 4, 8} THEN LittleEndian(value.v)
         ELSE IF value.v = <<>> THEN 0
         ELSE value.v[1]
    ELSE IF value.kind = "int" THEN value.v
    ELSE IF value.kind = "float" THEN Truncate(value.v)
    ELSE IF value.kind = "str" THEN value.v
    ELSE 0

\* the len little-endian bytes of n >= 0
RECURSIVE BytesOf(_, _)
BytesOf(n, len) ==
    IF len = 0 THEN <<>> ELSE <<n % 256>> \o BytesOf(n \div 256, len - 1)

\* the 8 bytes sqlite keeps for numpy.int64(n), n >= 0
Int64Bytes(n) == BytesOf(n, 8)

\* POSTURE_LABELS.get(posture, f'Unknown_{posture}')
POSTURE_LABELS(posture) ==
    IF posture \in 0..(NumLabels - 1) THEN <<"label", posture>>
    ELSE <<"Unknown", posture>>

\* round(minutes, 2) of a whole number of seconds, in hundredths of a
\* minute: the integer nearest to sec * 100 / 60 (never a tie)
Round2Minutes(sec) == (10 * sec + 3) \div 6

\* body(value), with the value computed before the body is entered
With(value, body(_)) == CHOOSE r \in {body(v) : v \in {value}} : TRUE

\* The builtin sum() over a list of non-negative floats.  The first float is
\* added to the int 0 sum() starts from, which leaves it as it is.  What
\* follows depends on the interpreter, which the repository does not fix:
\* CPython up to 3.11 adds the floats from the left and rounds after each
\* addition; CPython 3.12 and later also keep the rounding errors in a
\* compensation c (Neumaier's summation) and add c to the total at the end.
\* compensated tells which of the two the interpreter does.
RECURSIVE PlainSum(_, _)
PlainSum(f, xs) ==
    IF xs = <<>> THEN f
    ELSE With(FAdd(f, Head(xs)), LAMBDA t : PlainSum(t, Tail(xs)))

\* (big - t) + small, what the rounding of t = big + small lost
RoundingError(big, small, t) ==
    SAdd(Signed(TRUE, FSub(t, big)), SPos(small))

\* one addend x: t = f + x; c += (f - t) + x when fabs(f) >= fabs(x), else
\* c += (x - t) + f; f = t
CompensatedAdd(f, c, x, t) ==
    [f |-> t,
     c |-> SAdd(c, RoundingError(IF FLe(x, f) THEN f ELSE x,
                                 IF FLe(x, f) THEN x ELSE f, t))]

RECURSIVE CompensatedSum(_, _)
CompensatedSum(s, xs) ==
    IF xs = <<>> THEN SAdd(SPos(s.f), s.c).a
    ELSE With(CompensatedAdd(s.f, s.c, Head(xs), FAdd(s.f, Head(xs))),
              LAMBDA next : CompensatedSum(next, Tail(xs)))

sum(xs, compensated) ==
    IF xs = <<>> THEN FZero
    ELSE IF compensated
    THEN CompensatedSum([f |-> Head(xs), c |-> SPos(FZero)], Tail(xs))
    ELSE PlainSum(Head(xs), Tail(xs))

\* the floats a list of confidences written as fractions holds
ConfidenceFloats(confs) == [i \in 1..Len(confs) |-> FRat(confs[i])]

\* round(sum(confidences) / len(confidences), 3), in thousandths
avg_confidence(confs, compensated) ==
    IF confs = <<>> THEN 0
    ELSE PyRound3(FDiv(sum(ConfidenceFloats(confs), compensated),
                       FInt(Len(confs))))

\* lines 248-258 and 271-280: the open session ends at endT and is recorded
\* when it lasted more than zero minutes
CloseSession(st, endT, compensated) ==
    IF endT - st.session_start > 0
    THEN Append(st.sessions,
           [posture_id |-> st.current_posture,
            posture_name |-> POSTURE_LABELS(st.current_posture),
            start_time |-> isoformat(st.session_start),
            end_time |-> isoformat(endT),
            duration_minutes |-> Round2Minutes(endT - st.session_start),
            avg_confidence |-> avg_confidence(st.session_confidences,
                                             compensated)])
    ELSE st.sessions

\* the loop state before the first record (lines 238-241)
ScanStart ==
    [open |-> FALSE, current_posture |-> 0 - 1, session_start |-> 0,
     session_confidences |-> <<>>, sessions |-> <<>>]

\* one iteration of the loop of lines 243-264
ScanStep(st, record, compensated) ==
    LET timestamp == strptime(record.timestamp)
        posture == safe_int_convert(record.predicted_posture)
    IN  IF ~st.open \/ st.current_posture # posture
        THEN [open |-> TRUE, current_posture |-> posture,
              session_start |-> timestamp,
              session_confidences |-> <<record.confidence>>,
              sessions |-> IF st.open
                           THEN CloseSession(st, timestamp, compensated)
                           ELSE st.sessions]
        ELSE [st EXCEPT !.session_confidences = Append(@, record.confidence)]

RECURSIVE Scan(_, _, _)
Scan(st, records, compensated) ==
    IF records = <<>> THEN st
    ELSE Scan(ScanStep(st, Head(records), compensated), Tail(records),
              compensated)

\* the rows the query of lines 203-232 returns: those of the device when a
\* device_id is given, in timestamp order
FetchRecords(rows, device_id) ==
    SelectSeq(rows, LAMBDA r : device_id = "" \/ r.device_id = device_id)

\* a segmentation that forgets the session still open after the last row
SegmentRecords_DropLast(records, compensated) ==
    Scan(ScanStart, records, compensated).sessions

\* calculate_posture_durations on the fetched rows (lines 234-282)
SegmentRecords(records, compensated) ==
    IF records = <<>> THEN <<>>
    ELSE CloseSession(Scan(ScanStart, records, compensated),
                      strptime(records[Len(records)].timestamp), compensated)

calculate_posture_durations(rows, device_id, compensated) ==
    SegmentRecords(FetchRecords(rows, device_id), compensated)

\* what a stored row can hold besides its timestamp
RowMenu ==
    { [predicted_posture |-> [kind |-> "int", v |-> 0],
       confidence |-> <<9, 10>>, device_id |-> "d1"],
      [predicted_posture |-> [kind |-> "bytes", v |-> Int64Bytes(1)],
       confidence |-> <<3, 5>>, device_id |-> "d1"],
      [predicted_posture |-> [kind |-> "bytes", v |-> Int64Bytes(1)],
       confidence |-> <<3, 4>>, device_id |-> "d1"],
      [predicted_posture |-> [kind |-> "int", v |-> 0],
       confidence |-> <<3, 5>>, device_id |-> "d2"] }

\* seconds between two consecutive inserts
Gaps == {0, 1, 2}

LastTime(rows) ==
    IF rows = <<>> THEN 0 ELSE strptime(rows[Len(rows)].timestamp)

\* save_prediction inserts a row stamped CURRENT_TIMESTAMP
StoreRow(row, gap) ==
    /\ ~s_done
    /\ Len(s_history) < MaxRecords
    /\ s_history = <<>> => gap = 0
    /\ s_history' = Append(s_history,
                      row @@ [timestamp |-> SqlTime(LastTime(s_history) + gap)])
    /\ UNCHANGED <<s_device, s_sessions, s_done, s_request, s_date, s_score,
                   s_reset, compensated_sum>>
    /\ UNCHANGED <<predictorVars, serverVars, predictVars>>

\* a statistics request calls calculate_posture_durations
Segment(device_id) ==
    /\ ~s_done
    /\ s_request = "none"
    /\ s_device' = device_id
    /\ s_sessions' = calculate_posture_durations(s_history, device_id,
                                              compensated_sum)
    /\ s_done' = TRUE
    /\ s_request' = "sessions"
    /\ UNCHANGED <<s_history, s_date, s_score, s_reset, compensated_sum>>
    /\ UNCHANGED <<predictorVars, serverVars, predictVars>>

\* the request has been answered
SegmentReturn ==
    /\ s_done
    /\ s_device' = ""
    /\ s_sessions' = <<>>
    /\ s_done' = FALSE
    /\ s_request' = "none"
    /\ s_date' = 0
    /\ s_score' = <<>>
    /\ s_reset' = <<>>
    /\ UNCHANGED <<s_history, compensated_sum>>
    /\ UNCHANGED <<predictorVars, serverVars, predictVars>>

SInit ==
    /\ models = load_ensemble_models({})
    /\ scaler = FALSE
    /\ models_stage2 = {}
    /\ scaler_stage2 = FALSE
    /\ ServerInit
    /\ PredictIdle
    /\ StatIdle
    /\ compensated_sum \in BOOLEAN

SNext ==
    \/ \E row \in RowMenu, gap \in Gaps : StoreRow(row, gap)
    \/ \E device_id \in {"", "d1"} : Segment(device_id)
    \/ SegmentReturn

SpecSessions == SInit /\ [][SNext]_vars

\* the rows the last query read
Fetched == FetchRecords(s_history, s_device)

\* seconds between the first and the last row read
Span ==
    IF Fetched = <<>> THEN 0
    ELSE strptime(Fetched[Len(Fetched)].timestamp) - strptime(Fetched[1].timestamp)

\* the interval of a session, in seconds
SessionLength(session) == session.end_time.t - session.start_time.t

RECURSIVE SumLengths(_)
SumLengths(sessions) ==
    IF sessions = <<>> THEN 0
    ELSE SessionLength(Head(sessions)) + SumLengths(Tail(sessions))

RECURSIVE SumDurations(_)
SumDurations(sessions) ==
    IF sessions = <<>> THEN 0
    ELSE Head(sessions).duration_minutes + SumDurations(Tail(sessions))

\* sessions in time order, each ending where the next starts, the first
\* starting at the first row read and the last ending at the last row read
Contiguous ==
    /\ \A i \in 1..Len(s_sessions) :
         s_sessions[i].start_time.t < s_sessions[i].end_time.t
    /\ \A i \in 1..(Len(s_sessions) - 1) :
         s_sessions[i].end_time = s_sessions[i + 1].start_time
    /\ s_sessions # <<>> =>
         /\ s_sessions[1].start_time = isoformat(strptime(Fetched[1].timestamp))
         /\ s_sessions[Len(s_sessions)].end_time =
               isoformat(strptime(Fetched[Len(Fetched)].timestamp))

\* C19 (as claimed): the sessions are in time order, never overlap, leave no
\* gap, start at the first record and end at the last, and their durations
\* (duration_minutes, hundredths of a minute) sum to the span between the
\* first and the last record.
C19_AsClaimed ==
    s_done =>
        /\ Contiguous
        /\ 3 * SumDurations(s_sessions) = 5 * Span

\* C19 (corrected): the sessions are in time order, never overlap, leave no
\* gap, start at the first record and end at the last, so the intervals
\* from start_time to end_time sum to the span between the first and the
\* last record; each duration_minutes is its interval in minutes rounded to
\* two decimals, at most 0.005 minute away from it.
C19_Partition ==
    s_done =>
        /\ Contiguous
        /\ SumLengths(s_sessions) = Span
        /\ \A i \in 1..Len(s_sessions) :
             2 * Abs(3 * s_sessions[i].duration_minutes
                       - 5 * SessionLength(s_sessions[i])) <= 3

\* two sessions, the first following a dropped zero-length run, cover a
\* span of four seconds
C19_Witness ==
    /\ s_done
    /\ Len(Fetched) = 4
    /\ Len(s_sessions) = 2
    /\ Span = 4
    /\ \E i \in 1..3 :
         /\ strptime(Fetched[i].timestamp) = strptime(Fetched[i + 1].timestamp)
         /\ safe_int_convert(Fetched[i].predicted_posture)
              # safe_int_convert(Fetched[i + 1].predicted_posture)

\* a session whose avg_confidence depends on the interpreter: the
\* confidences 0.75, 0.6, 0.6, 0.6 average to 0.637 under a compensated
\* sum() and to 0.638 under a plain one
SumModeShows ==
    /\ s_done
    /\ Len(s_sessions) = 1
    /\ s_sessions[1].avg_confidence = (IF compensated_sum THEN 637 ELSE 638)
    /\ s_sessions # calculate_posture_durations(s_history, s_device,
                                                ~compensated_sum)

\* the record stream of a session list: for each session in order, a row
\* with its label at its start_time and one at its end_time
RECURSIVE SessionStream(_)
SessionStream(sessions) ==
    IF sessions = <<>> THEN <<>>
    ELSE LET h == Head(sessions)
             row(text) == [predicted_posture |-> [kind |-> "int", v |-> h.posture_id],
                           confidence |-> <<h.avg_confidence, 1000>>,
                           device_id |-> "d1",
                           timestamp |-> SqlTime(text.t)]
         IN  <<row(h.start_time), row(h.end_time)>> \o SessionStream(Tail(sessions))

Boundaries(sessions) ==
    [i \in 1..Len(sessions) |->
        <<sessions[i].posture_id, sessions[i].start_time, sessions[i].end_time>>]

\* C20 (as claimed): segmenting the record stream of the returned sessions
\* returns the same sequence of (label, start_time, end_time).
C20_Idempotent ==
    s_done =>
        Boundaries(SegmentRecords(SessionStream(s_sessions), compensated_sum))
            = Boundaries(s_sessions)

\* ------------------------------------------------------------------------
\* The rule-based branches, stated on the vector handed to the classifier
\* ------------------------------------------------------------------------
\* sums of the sensors at (0-based) indices 0..4, 5..10, {0,1,5,6}, {3,4,8,9}
LeftSum == SumSeq(SubSeq(p_features, 1, 5))
RightSum == SumSeq(SubSeq(p_features, 6, 11))
FrontSum == p_features[1] + p_features[2] + p_features[6] + p_features[7]
BackSum == p_features[4] + p_features[5] + p_features[9] + p_features[10]

\* a rule-based classification of a vector with non-zero total has returned
RuleClassified ==
    /\ p_done
    /\ p_result.method = "rule_based_stage1"
    /\ SumSeq(p_features) # 0

\* the label the priority order gives when the three tests are leftHeavy,
\* rightHeavy and frontHeavy
FollowsPriority(leftHeavy, rightHeavy, frontHeavy) ==
    LET label == p_result.s1.label
    IN  /\ leftHeavy => label = IF FrontSum > BackSum THEN 7 ELSE 5
        /\ (~leftHeavy /\ rightHeavy) =>
              label = IF FrontSum > BackSum THEN 6 ELSE 4
        /\ (~leftHeavy /\ ~rightHeavy /\ frontHeavy) => label \in {1, 2, 3}
        /\ (~leftHeavy /\ ~rightHeavy /\ ~frontHeavy) => label = 0

\* C23 (as claimed): the tests of the priority order are left >= 1.5*right,
\* right >= 1.5*left and front >= 1.3*back.
C23_AsClaimed ==
    RuleClassified =>
        FollowsPriority(2 * LeftSum >= 3 * RightSum,
                        2 * RightSum >= 3 * LeftSum,
                        10 * FrontSum >= 13 * BackSum)

\* C23 (corrected): for every 11-value vector with non-zero total the label
\* follows the priority order with strict tests: left > 1.5*right gives 5 or
\* 7 (7 when front exceeds back), otherwise right > 1.5*left gives 4 or 6
\* (6 when front exceeds back), otherwise front > 1.3*back gives a label in
\* {1,2,3}, otherwise the label is 0.
C23_PriorityOrder ==
    RuleClassified =>
        FollowsPriority(2 * LeftSum > 3 * RightSum,
                        2 * RightSum > 3 * LeftSum,
                        10 * FrontSum > 13 * BackSum)

\* left is exactly 1.5 times right and the vector is not classified as
\* left-heavy
C23_Witness ==
    /\ RuleClassified
    /\ 2 * LeftSum = 3 * RightSum
    /\ p_result.s1.label \notin {5, 7}

\* the branch of the priority order the vector falls in
RuleBranch ==
    IF 2 * LeftSum > 3 * RightSum THEN "left"
    ELSE IF 2 * RightSum > 3 * LeftSum THEN "right"
    ELSE IF 10 * FrontSum > 13 * BackSum THEN "front"
    ELSE "balanced"

DominantSum ==
    CASE RuleBranch = "left" -> LeftSum
      [] RuleBranch = "right" -> RightSum
      [] OTHER -> FrontSum

WeakerSum ==
    CASE RuleBranch = "left" -> RightSum
      [] RuleBranch = "right" -> LeftSum
      [] OTHER -> BackSum

\* 0.6 + 0.5*(dominant/weaker - 1) for a weaker sum that is not zero
RatioClaimed ==
    SAdd(SPos(F06),
         SMul(SPos(F05),
              SSub(SDiv(SInt(DominantSum), SInt(WeakerSum)), SPos(F1))))

\* clamp(0.3, cap, x) of a signed x
ClampTo(cap, x) == IF x.neg THEN F03 ELSE PyMax(F03, PyMin(cap, x.a))

\* clamp(0.3, cap, 0.6 + 0.5*(dominant/weaker - 1)); a weaker sum of zero
\* makes the quotient infinite
RatioTerm(cap) ==
    IF WeakerSum = 0 THEN cap ELSE ClampTo(cap, RatioClaimed)

\* clamp(0.3, 0.95, 0.3 + balance_score), balance_score = 1 - |left-right|/total
BalancedTerm ==
    ClampTo(F095,
            SAdd(SPos(F03),
                 SSub(SPos(F1), SDiv(SInt(Abs(LeftSum - RightSum)),
                                     SInt(SumSeq(p_features))))))

\* no reading of the vector is negative
NonNegative == \A i \in 1..Len(p_features) : p_features[i] >= 0

\* C24 (as claimed): in the left-heavy, right-heavy and front-heavy branches
\* the confidence is clamp(0.3, 0.95, 0.6 + 0.5*(dominant/weaker - 1)), in
\* the balanced branch clamp(0.3, 0.95, 0.3 + balance_score).
C24_AsClaimed ==
    RuleClassified =>
        p_result.s1.conf = IF RuleBranch = "balanced" THEN BalancedTerm
                           ELSE RatioTerm(F095)

\* C24 (corrected): in the left-heavy, right-heavy and front-heavy branches
\* the confidence is clamp(0.3, 0.9, 0.6 + 0.5*(dominant/weaker - 1)): the
\* term is capped at 0.9 (0.9 when the weaker sum is zero) and raised to 0.3
\* when it is lower, which negative readings bring about; when no reading is
\* negative it lies in [0.75, 0.9].  In the balanced branch the confidence
\* is clamp(0.3, 0.95, 0.3 + balance_score).
C24_Confidence ==
    RuleClassified =>
        /\ p_result.s1.conf = IF RuleBranch = "balanced" THEN BalancedTerm
                              ELSE RatioTerm(F09)
        /\ RuleBranch # "balanced" =>
              /\ FLe(F03, p_result.s1.conf)
              /\ FLe(p_result.s1.conf, F09)
        /\ (RuleBranch # "balanced" /\ NonNegative) =>
              FLe(F075, p_result.s1.conf)

\* a left-heavy vector whose ratio term exceeds 0.95 was given 0.9
C24_Witness ==
    /\ RuleClassified
    /\ RuleBranch = "left"
    /\ RightSum > 0
    /\ SLt(SPos(F095), RatioClaimed)
    /\ p_result.s1.conf = F09

\* a left-heavy vector with a negative right sum: the ratio term is -0.9
\* and the confidence returned is 0.3
C24_LowerClamp ==
    /\ RuleClassified
    /\ p_features = <<2, 0, 0, 0, 0, 0 - 1, 0, 0, 0, 0, 0>>
    /\ RatioClaimed = Signed(TRUE, F09)
    /\ LabelConf(p_result) = [label |-> 7, conf |-> F03]

\* two negative sums, left -1 over right -2: the ratio term 0.35 is below
\* 0.75 and is returned as it is
C24_BelowRange ==
    /\ RuleClassified
    /\ RuleBranch = "left"
    /\ LeftSum = 0 - 1
    /\ RightSum = 0 - 2
    /\ p_result.s1.conf = FRat(<<35, 100>>)

\* ------------------------------------------------------------------------
\* The votes, stated on the outcomes of the models
\* ------------------------------------------------------------------------
\* the models of a vote that went through the loop body without raising
Succeeding(loaded, outs) ==
    {n \in loaded :
        /\ ~outs[n].fails
        /\ outs[n].kind # "proba_raises"
        /\ ~(outs[n].kind = "noproba" /\ outs[n].pred < 0 - NumLabels)}

\* the models whose predict returned
Predicting(loaded, outs) == {n \in loaded : ~outs[n].fails}

\* the succeeding models of a vote in the order the loop takes them
VoteOrder(loaded, outs) ==
    SelectSeq(ModelOrder \o Stage2Order,
              LAMBDA n : n \in Succeeding(loaded, outs))

\* weight[model] * probability[c], or weight[model] on the predicted class
ClassTerm(n, out, c) ==
    IF out.kind = "proba"
    THEN FMul(model_weight(n), TenthFloats[out.proba[c + 1] + 1])
    ELSE IF out.pred = c THEN model_weight(n) ELSE FZero

\* the sum of those terms over the models of order, added to acc
RECURSIVE ClassSum(_, _, _, _)
ClassSum(acc, order, outs, c) ==
    IF order = <<>> THEN acc
    ELSE ClassSum(FAdd(acc, ClassTerm(Head(order), outs[Head(order)], c)),
                  Tail(order), outs, c)

ClassScore(loaded, outs, c) == ClassSum(FZero, VoteOrder(loaded, outs), outs, c)

\* the scores of the classes c..7
RECURSIVE ClassScoresFrom(_, _, _)
ClassScoresFrom(loaded, outs, c) ==
    IF c = NumLabels THEN <<>>
    ELSE <<ClassScore(loaded, outs, c)>> \o ClassScoresFrom(loaded, outs, c + 1)

\* the scores of the classes 0..7; entry c + 1 is the score of class c
ClassScores(loaded, outs) == ClassScoresFrom(loaded, outs, 0)

\* how many of the raw predictions are v
Frequency(loaded, outs, v) ==
    Cardinality({n \in Predicting(loaded, outs) : outs[n].pred = v})

\* what the claim requires of the pair r of a vote whose class scores are
\* cs and sum to total
VoteClaim(cs, total, loaded, outs, r, degenerate) ==
    /\ (Succeeding(loaded, outs) # {} /\ FLt(FZero, total)) =>
          /\ r.label \in 0..(NumLabels - 1)
          /\ \A c \in 0..(NumLabels - 1) :
                /\ FLe(cs[c + 1], cs[r.label + 1])
                /\ cs[c + 1] = cs[r.label + 1] => r.label <= c
          /\ r.conf = Clamp(FDiv(cs[r.label + 1], total))
    /\ (Predicting(loaded, outs) # {} /\ ~FLt(FZero, total)) =>
          /\ \E n \in Predicting(loaded, outs) : outs[n].pred = r.label
          /\ \A n \in Predicting(loaded, outs) :
                Frequency(loaded, outs, outs[n].pred)
                    <= Frequency(loaded, outs, r.label)
          /\ r.conf = degenerate

VoteClaimOn(cs, loaded, outs, r, degenerate) ==
    VoteClaim(cs, ScoreSum(cs), loaded, outs, r, degenerate)

VoteAsClaimed(loaded, outs, r, degenerate) ==
    VoteClaimOn(ClassScores(loaded, outs), loaded, outs, r, degenerate)

\* C25: in a vote of either stage with a succeeding model and voting scores
\* that are not all zero, the label is the lowest index with the maximal
\* voting score (the sum of weight[model] * probability[c], or of weight[model]
\* on the predicted class) and the confidence is
\* clamp(0.3, 0.95, winning score / sum of the scores); when all scores are
\* zero the label is the most frequent raw prediction and the confidence is
\* 0.5 in stage 1 and 0.6 in stage 2.
C25_Vote ==
    /\ (Stage1Returned /\ UseEnsemble) =>
          VoteAsClaimed(models, p_env.out1, p_result.s1, F05)
    /\ (p_done /\ p_result.s2ran /\ ~p_result.raised) =>
          VoteAsClaimed(models_stage2, p_env.out2, p_result.s2, F06)

\* the learned stage-1 models that are loaded
Learned == models \ {"rule_based"}

\* the call with every stage-1 model raising in predict
WithFailingModels ==
    predict_posture(p_fsr, p_imu,
        [p_env EXCEPT !.out1 = [n \in AllNames |-> Outcome(TRUE, 0, "proba", OneHot(0))]])

\* stage 2 ran and its pair replaced the stage-1 pair
Stage2Overrode ==
    /\ p_result.s2ran
    /\ Overriding(Stage2Result)

\* the parts of C30 that do not name the logged method
RuleBasedBelowTwo ==
    /\ p_result.method \in {"ensemble_stage1", "ensemble_stage1_+_stage2"}
          => Cardinality(Learned) >= 2
    /\ Cardinality(Learned) <= 1 =>
          /\ p_result.s1 = RuleBasedResult
          /\ p_result = WithFailingModels

\* C30 (as claimed): the ensemble vote is used only with at least two learned
\* stage-1 models loaded; with one or none the stage-1 pair is the rule-based
\* pair, the loaded model is not invoked, and the logged method is
\* rule_based_stage1.
C30_AsClaimed ==
    (p_done /\ ~p_result.raised) =>
        /\ RuleBasedBelowTwo
        /\ Cardinality(Learned) <= 1 => p_result.method = "rule_based_stage1"

\* C30 (corrected): the ensemble vote is used only with at least two learned
\* stage-1 models loaded; with one or none the stage-1 pair is the rule-based
\* pair, the loaded model is not invoked (the result does not depend on what
\* it would do), and the logged method is rule_based_stage1, or
\* rule_based_stage1_+_stage2 when stage 2 replaced the stage-1 pair.
C30_SingleModelIsRuleBased ==
    (p_done /\ ~p_result.raised) =>
        /\ RuleBasedBelowTwo
        /\ Cardinality(Learned) <= 1 =>
              p_result.method = IF Stage2Overrode
                                THEN "rule_based_stage1_+_stage2"
                                ELSE "rule_based_stage1"

\* one learned model is loaded, it would have answered 4, and the call
\* returned the rule-based pair
C30_Witness ==
    /\ p_done
    /\ ~p_result.raised
    /\ models = {"lr"}
    /\ ~p_env.out1["lr"].fails
    /\ p_env.out1["lr"].pred = 4
    /\ p_result.s1 = RuleBasedResult
    /\ p_result.s1.label = 7
    /\ p_result.method = "rule_based_stage1"

\* C28 (as claimed): for every inbound message at most one message is sent
\* back on its connection, a success payload or an error payload, never
\* both, also when save_prediction or the statistics update raises after the
\* result was sent.
C28_AtMostOneReply ==
    \A c \in Conns : \A n \in 1..Taken(c) :
        Len(Replies(c, n)) <= 1

\* ------------------------------------------------------------------------
\* Latency window specification (SpecWindow): update_performance_stats is
\* called once per processed frame, until the window has overflowed
\* ------------------------------------------------------------------------
\* calls beyond the window size
MaxOverflow == 3

\* calls at the start whose latency is free
FreeCalls == 2

\* the latency (ms) the n-th processed frame can have: free at the start of
\* the run and once the window is full, fixed in between
WindowLatencies(n) ==
    IF n <= FreeCalls \/ n > WindowSize THEN {1, 2} ELSE {3}

WInit ==
    /\ models = load_ensemble_models({})
    /\ scaler = FALSE
    /\ models_stage2 = {}
    /\ scaler_stage2 = FALSE
    /\ ServerInit
    /\ PredictIdle
    /\ StatIdle
    /\ compensated_sum = TRUE

\* line 123: self.update_performance_stats(processing_time_ms)
UpdateStats ==
    /\ total_predictions < WindowSize + MaxOverflow
    /\ \E ms \in WindowLatencies(total_predictions + 1) :
         /\ total_predictions' = total_predictions + 1
         /\ response_times' = update_performance_stats(response_times, ms)
         /\ latency_log' = Append(latency_log, ms)
    /\ UNCHANGED <<connected_clients, client_info, nextUuid,
                   posture_predictions, client_connections, pc, client_id,
                   cur, res, pending, running, transport, inbox, outbox,
                   sent, steps, disconnect_logged>>
    /\ UNCHANGED <<predictorVars, statVars, predictVars>>

WNext == UpdateStats

SpecWindow == WInit /\ [][WNext]_vars

\* the last k values of a sequence
LastOf(seq, k) == SubSeq(seq, Len(seq) - k + 1, Len(seq))

\* C27: after any sequence of processed frames response_times holds at most
\* 100 entries, exactly the latencies of the most recent min(n, 100)
\* processed frames in processing order, and total_predictions equals the
\* number n of such frames.
C27_LatencyWindow ==
    LET n == Len(latency_log)
    IN  /\ Len(response_times) <= WindowSize
        /\ response_times = LastOf(latency_log, IF n < WindowSize THEN n ELSE WindowSize)
        /\ total_predictions = n

\* 102 frames were processed: the window has dropped the first two
\* latencies and ends with the two newest
C27_Witness ==
    /\ total_predictions = WindowSize + 2
    /\ Len(response_times) = WindowSize
    /\ latency_log[1] = 1
    /\ latency_log[2] = 2
    /\ response_times[1] = latency_log[3]
    /\ response_times[WindowSize - 1] = 1
    /\ response_times[WindowSize] = 2

\* ------------------------------------------------------------------------
\* Statistics (src/statistics_api.py): per-posture totals and daily score
\* ------------------------------------------------------------------------


\* session['duration_minutes'], the float that round(duration, 2) returned
DurationOf(session) == FHundredths(session.duration_minutes)

\* total += duration over the sessions in order (lines 299-304)
RECURSIVE AddDurations(_, _)
AddDurations(total, sessions) ==
    IF sessions = <<>> THEN total
    ELSE With(FAdd(total, DurationOf(Head(sessions))),
              LAMBDA t : AddDurations(t, Tail(sessions)))

\* the keys of posture_stats in insertion order
RECURSIVE PostureOrder(_, _)
PostureOrder(sessions, seen) ==
    IF sessions = <<>> THEN <<>>
    ELSE IF Head(sessions).posture_id \in seen
    THEN PostureOrder(Tail(sessions), seen)
    ELSE <<Head(sessions).posture_id>>
         \o PostureOrder(Tail(sessions), seen \cup {Head(sessions).posture_id})

\* the PostureTimeStats of one posture (lines 306-337); durations are kept
\* in hundredths of a minute, percentages in hundredths of a percent
PostureTimeStats(sessions, posture, total_time) ==
    LET own == SelectSeq(sessions, LAMBDA s : s.posture_id = posture)
        stat(total_duration) ==
            [posture_id |-> posture,
             posture_name |-> own[1].posture_name,
             total_duration_minutes |-> Round2Hundredths(total_duration),
             session_count |-> Len(own),
             percentage |->
                 Round2Hundredths(FMul(FDiv(total_duration, total_time), F100))]
    IN  With(AddDurations(FZero, own), stat)

\* list.sort(key=total_duration_minutes, reverse=True): the order is stable
RECURSIVE InsertStat(_, _)
InsertStat(sorted, stat) ==
    IF sorted = <<>> THEN <<stat>>
    ELSE IF Head(sorted).total_duration_minutes >= stat.total_duration_minutes
    THEN <<Head(sorted)>> \o InsertStat(Tail(sorted), stat)
    ELSE <<stat>> \o sorted

RECURSIVE SortStats(_, _)
SortStats(sorted, stats) ==
    IF stats = <<>> THEN sorted
    ELSE SortStats(InsertStat(sorted, Head(stats)), Tail(stats))

\* posture_stats.values(), as PostureTimeStats (lines 322-337)
RECURSIVE StatsInOrder(_, _, _)
StatsInOrder(sessions, order, total_time) ==
    IF order = <<>> THEN <<>>
    ELSE <<PostureTimeStats(sessions, Head(order), total_time)>>
         \o StatsInOrder(sessions, Tail(order), total_time)

\* get_posture_statistics on the sessions of the period
get_posture_statistics(sessions) ==
    IF sessions = <<>> THEN <<>>
    ELSE With(AddDurations(FZero, sessions),
              LAMBDA total_time :
                  SortStats(<<>>, StatsInOrder(sessions, PostureOrder(sessions, {}),
                                               total_time)))

\* posture_weights.get(posture_id, 2)
posture_weights(posture_id) ==
    CASE posture_id = 1 -> 4
      [] posture_id \in {2, 3} -> 3
      [] posture_id \in {4, 5} -> 2
      [] posture_id \in {6, 7} -> 1
      [] OTHER -> 2

\* stat.total_duration_minutes, a float
MinutesOf(stat) == FHundredths(stat.total_duration_minutes)

\* line 363: sum(stat.total_duration_minutes for stat in posture_stats)
TotalMinutes(posture_stats, compensated) ==
    sum([i \in 1..Len(posture_stats) |-> MinutesOf(posture_stats[i])],
        compensated)

\* line 391: the penalty of one bad posture
time_penalty(stat, total_time) ==
    FMul(FMul(FMul(FDiv(MinutesOf(stat), total_time), F100),
              FInt(posture_weights(stat.posture_id))),
         F015)

\* lines 388-392: the penalty summed over the bad postures, before int()
RECURSIVE PenaltySum(_, _, _)
PenaltySum(acc, bad_postures, total_time) ==
    IF bad_postures = <<>> THEN acc
    ELSE With(FAdd(acc, time_penalty(Head(bad_postures), total_time)),
              LAMBDA penalty : PenaltySum(penalty, Tail(bad_postures), total_time))

\* max(bad_postures, key=duration * weight): the first of the largest
RECURSIVE WorstStat(_, _)
WorstStat(best, rest) ==
    IF rest = <<>> THEN best
    ELSE LET key(s) == FMul(MinutesOf(s), FInt(posture_weights(s.posture_id)))
         IN  IF FLt(key(best), key(Head(rest)))
             THEN WorstStat(Head(rest), Tail(rest))
             ELSE WorstStat(best, Tail(rest))

RECURSIVE SumCounts(_)
SumCounts(stats) ==
    IF stats = <<>> THEN 0 ELSE Head(stats).session_count + SumCounts(Tail(stats))

\* thirty points whatever the average session length
stability_base_Thirty(avg_session_duration) == 30

\* lines 404-411: the points for the average session length
stability_base(avg_session_duration) ==
    LET a == avg_session_duration
        in(lo, hi) == FLe(FInt(lo), a) /\ FLe(a, FInt(hi))
        from(lo, hi) == FLe(FInt(lo), a) /\ FLt(a, FInt(hi))
        upto(lo, hi) == FLt(FInt(lo), a) /\ FLe(a, FInt(hi))
    IN  IF in(5, 15) THEN 10
        ELSE IF from(3, 5) \/ upto(15, 20) THEN 8
        ELSE IF from(1, 3) \/ upto(20, 30) THEN 5
        ELSE 2

\* lines 414-421: the points for the number of sessions
frequency_bonus(total_sessions) ==
    IF total_sessions >= 3 THEN 10
    ELSE IF total_sessions >= 2 THEN 7
    ELSE IF total_sessions >= 1 THEN 5
    ELSE 0

\* grades whose thresholds must be exceeded
GradeOf_Strict(total_score) ==
    IF total_score > 85 THEN "A+"
    ELSE IF total_score > 75 THEN "A"
    ELSE IF total_score > 65 THEN "B+"
    ELSE IF total_score > 55 THEN "B"
    ELSE IF total_score > 45 THEN "C+"
    ELSE IF total_score > 35 THEN "C"
    ELSE "D"

\* lines 432-451: the grade of a scored day
GradeOf(total_score) ==
    IF total_score >= 85 THEN "A+"
    ELSE IF total_score >= 75 THEN "A"
    ELSE IF total_score >= 65 THEN "B+"
    ELSE IF total_score >= 55 THEN "B"
    ELSE IF total_score >= 45 THEN "C+"
    ELSE IF total_score >= 35 THEN "C"
    ELSE "D"

IntMin(a, b) == IF a < b THEN a ELSE b
IntMax(a, b) == IF a > b THEN a ELSE b

\* a clamp without the lower end
ClampScore_NoFloor(points) == IntMin(100, points)

\* line 429: max(0, min(100, points))
ClampScore(points) == IntMax(0, IntMin(100, points))

\* lines 349-361: the answer when there is nothing to score
NoDataScore ==
    [total_score |-> 0, good_posture_score |-> 0, bad_posture_penalty |-> 0,
     session_stability_score |-> 0, monitoring_time |-> 0,
     good_posture_percentage |-> 0, worst_posture |-> <<"no data">>,
     worst_posture_duration |-> 0, grade |-> "F"]

\* lines 366-367: the percentage of the good posture, in hundredths
good_posture_percentage(posture_stats) ==
    IF SelectSeq(posture_stats, LAMBDA s : s.posture_id = 0) = <<>> THEN 0
    ELSE SelectSeq(posture_stats, LAMBDA s : s.posture_id = 0)[1].percentage

\* line 368
good_posture_score(percentage) ==
    IntMin(60, FloorInt(FMul(FHundredths(percentage), F06)))

\* lines 371-394
bad_posture_penalty(bad_postures, total_time) ==
    IF bad_postures = <<>> THEN 0
    ELSE IntMin(40, FloorInt(PenaltySum(FZero, bad_postures, total_time)))

\* lines 403-423
session_stability_score(total_sessions, total_time) ==
    stability_base(FDiv(total_time, FInt(total_sessions)))
    + frequency_bonus(total_sessions)

\* lines 373-374 and 397-400: name and duration of the worst posture
WorstPosture(bad_postures) ==
    IF bad_postures = <<>>
    THEN [posture_name |-> <<"none">>, total_duration_minutes |-> 0]
    ELSE WorstStat(bad_postures[1], Tail(bad_postures))

\* lines 429-468: the result, from its parts
ScoreResult(good, penalty, stability, percentage, worst, total_time) ==
    [total_score |-> ClampScore(good - penalty + stability),
     good_posture_score |-> good,
     bad_posture_penalty |-> penalty,
     session_stability_score |-> stability,
     monitoring_time |-> Round2Hundredths(total_time),
     good_posture_percentage |-> percentage,
     worst_posture |-> worst.posture_name,
     worst_posture_duration |-> worst.total_duration_minutes,
     grade |-> GradeOf(ClampScore(good - penalty + stability))]

\* lines 363-468: the score of a day with statistics, total_time being
\* the sum of line 363 and bad_postures the list of line 371
ScoreOfDay(posture_stats, bad_postures, total_time) ==
    ScoreResult(good_posture_score(good_posture_percentage(posture_stats)),
                bad_posture_penalty(bad_postures, total_time),
                session_stability_score(SumCounts(posture_stats), total_time),
                good_posture_percentage(posture_stats),
                WorstPosture(bad_postures),
                total_time)

\* calculate_daily_posture_score on the statistics of the day
ScoreOfStats(posture_stats, compensated) ==
    IF posture_stats = <<>> THEN NoDataScore
    ELSE ScoreOfDay(posture_stats,
                    SelectSeq(posture_stats, LAMBDA s : s.posture_id # 0),
                    TotalMinutes(posture_stats, compensated))

\* ------------------------------------------------------------------------
\* Score specification (SpecScore): rows are stored and connections are
\* logged, then the daily score of a (date, device) is requested or the
\* data is reset. The rows of the posture_predictions table are s_history.
\* ------------------------------------------------------------------------
\* seconds in a day
DaySeconds == 86400

\* rows of client_connections logged in a run
MaxConnections == 1

\* sqlite's date(timestamp), as a day number
DateOf(text) == text.t \div DaySeconds

\* the rows the query of lines 203-232 returns for start_date = end_date =
\* date: those of that day (and of the device, when one is given)
FetchDay(rows, date, device_id) ==
    SelectSeq(FetchRecords(rows, device_id),
              LAMBDA r : DateOf(r.timestamp) = date)

\* calculate_posture_durations(date, date, device_id)
DaySessions(rows, date, device_id, compensated) ==
    SegmentRecords(FetchDay(rows, date, device_id), compensated)

\* calculate_daily_posture_score(date, device_id)
calculate_daily_posture_score(rows, date, device_id, compensated) ==
    With(DaySessions(rows, date, device_id, compensated),
         LAMBDA sessions :
             With(get_posture_statistics(sessions),
                  LAMBDA posture_stats : ScoreOfStats(posture_stats, compensated)))

\* StatisticsDatabase.reset_all_data from its first DELETE on: both tables
\* afterwards, and the result.  total_records and connection_records are
\* what the two COUNT queries of lines 481-485 read; ok: no statement
\* raised.  A statement that raises (database locked, table missing) ends
\* in the except branch of lines 507-513 and nothing is committed.
reset_all_data(prediction_rows, connection_rows, total_records, connection_records, ok) ==
    IF ok
    THEN [posture_predictions |-> <<>>,
          client_connections |-> <<>>,
          result |-> [success |-> TRUE,
                      deleted_records |-> total_records + connection_records]]
    ELSE [posture_predictions |-> prediction_rows,
          client_connections |-> connection_rows,
          result |-> [success |-> FALSE, deleted_records |-> 0]]

\* what a stored row can hold besides its timestamp
ScoreRows ==
    { [predicted_posture |-> [kind |-> "int", v |-> 0],
       confidence |-> <<9, 10>>, device_id |-> "d1"],
      [predicted_posture |-> [kind |-> "bytes", v |-> Int64Bytes(1)],
       confidence |-> <<3, 5>>, device_id |-> "d1"],
      [predicted_posture |-> [kind |-> "int", v |-> 6],
       confidence |-> <<9, 10>>, device_id |-> "d2"] }

\* seconds between two consecutive inserts: none, a minute, five minutes,
\* a day
ScoreGaps == {0, 60, 300, DaySeconds}

\* the dates and devices a request can name
ScoreDates == {0, 1}
ScoreDevices == {"", "d1"}

\* handle_client logs the connection of a new client
LogConnection(cid) ==
    /\ ~s_done
    /\ Len(client_connections) < MaxConnections
    /\ client_connections' = log_client_connection(client_connections, cid, TRUE)
    /\ UNCHANGED <<connected_clients, client_info, total_predictions,
                   response_times, latency_log, nextUuid, posture_predictions,
                   pc, client_id, cur, res, pending, running, transport,
                   inbox, outbox, sent, steps, disconnect_logged>>
    /\ UNCHANGED <<predictorVars, statVars, predictVars>>

\* GET /statistics/score/{date}
Score(date, device_id) ==
    /\ ~s_done
    /\ s_request = "none"
    /\ s_request' = "score"
    /\ s_date' = date
    /\ s_device' = device_id
    /\ s_sessions' = DaySessions(s_history, date, device_id, compensated_sum)
    /\ s_score' = calculate_daily_posture_score(s_history, date, device_id,
                                             compensated_sum)
    /\ s_done' = TRUE
    /\ UNCHANGED <<s_history, s_reset, compensated_sum>>
    /\ UNCHANGED <<predictorVars, serverVars, predictVars>>

\* DELETE /data/reset?confirm=... up to the first COUNT query: the 400 of
\* lines 776-780, or total_records read (lines 481-482).  The statements
\* of reset_all_data run one by one in autocommit until the first DELETE,
\* so a row another thread stores in between is committed.
Reset(confirm) ==
    /\ ~s_done
    /\ s_request = "none"
    /\ s_request' = "reset"
    /\ IF ~confirm
       THEN /\ s_reset' = [confirm |-> confirm, status |-> 400]
            /\ s_done' = TRUE
       ELSE /\ s_reset' = [confirm |-> confirm, at |-> "count_connections",
                           total_records |-> Len(s_history),
                           connection_records |-> 0]
            /\ s_done' = FALSE
    /\ UNCHANGED <<s_history, s_device, s_sessions, s_date, s_score,
                   compensated_sum>>
    /\ UNCHANGED <<predictorVars, serverVars, predictVars>>

\* lines 484-485: connection_records read
ResetCountConnections ==
    /\ ~s_done
    /\ s_request = "reset"
    /\ s_reset.at = "count_connections"
    /\ s_reset' = [s_reset EXCEPT !.at = "delete",
                                  !.connection_records = Len(client_connections)]
    /\ UNCHANGED <<s_history, s_device, s_sessions, s_done, s_request, s_date,
                   s_score, compensated_sum>>
    /\ UNCHANGED <<predictorVars, serverVars, predictVars>>

\* lines 488-513 and 785-790: the deletes and the commit, or the statement
\* that raises, and the reply; s_history and posture_predictions are the
\* rows of the one posture_predictions table
ResetFinish(ok) ==
    /\ ~s_done
    /\ s_request = "reset"
    /\ ok => s_reset.at = "delete"
    /\ LET after == reset_all_data(s_history, client_connections,
                                   s_reset.total_records,
                                   s_reset.connection_records, ok)
       IN  /\ s_history' = after.posture_predictions
           /\ posture_predictions' = IF ok THEN <<>> ELSE posture_predictions
           /\ client_connections' = after.client_connections
           /\ s_reset' = [confirm |-> TRUE,
                          status |-> 200,
                          success |-> after.result.success,
                          deleted_records |-> after.result.deleted_records]
    /\ s_done' = TRUE
    /\ UNCHANGED <<s_device, s_sessions, s_request, s_date, s_score,
                   compensated_sum>>
    /\ UNCHANGED <<connected_clients, client_info, total_predictions,
                   response_times, latency_log, nextUuid,
                   pc, client_id, cur, res, pending, running, transport,
                   inbox, outbox, sent, steps, disconnect_logged>>
    /\ UNCHANGED <<predictorVars, predictVars>>

ScInit ==
    /\ models = load_ensemble_models({})
    /\ scaler = FALSE
    /\ models_stage2 = {}
    /\ scaler_stage2 = FALSE
    /\ ServerInit
    /\ PredictIdle
    /\ StatIdle
    /\ compensated_sum \in BOOLEAN

ScNext ==
    \/ \E row \in ScoreRows, gap \in ScoreGaps : StoreRow(row, gap)
    \/ \E date \in ScoreDates, device_id \in ScoreDevices : Score(date, device_id)
    \/ SegmentReturn

SpecScore == ScInit /\ [][ScNext]_vars

\* ------------------------------------------------------------------------
\* Reset specification (SpecReset): the websocket server stores rows and
\* logs connections in its own thread while DELETE /data/reset is served
\* ------------------------------------------------------------------------
ResetRows ==
    { [predicted_posture |-> [kind |-> "int", v |-> 0],
       confidence |-> <<9, 10>>, device_id |-> "d1"],
      [predicted_posture |-> [kind |-> "bytes", v |-> Int64Bytes(1)],
       confidence |-> <<3, 5>>, device_id |-> "d1"] }

ResetGaps == {0, 60}

ReNext ==
    \/ \E row \in ResetRows, gap \in ResetGaps : StoreRow(row, gap)
    \/ LogConnection("c1")
    \/ \E confirm \in BOOLEAN : Reset(confirm)
    \/ ResetCountConnections
    \/ \E ok \in BOOLEAN : ResetFinish(ok)
    \/ SegmentReturn

SpecReset == ScInit /\ [][ReNext]_vars

\* a score request has been served
Scored == s_done /\ s_request = "score"

\* C21: whatever the date, the device filter and the stored history, the
\* score returned has an integer total_score in [0, 100] that is good
\* posture score minus penalty plus stability score, clamped to [0, 100],
\* with the three components in [0, 60], [0, 40] and [0, 20]
C21_ScoreRange ==
    Scored =>
        /\ s_score.total_score \in 0..100
        /\ s_score.good_posture_score \in 0..60
        /\ s_score.bad_posture_penalty \in 0..40
        /\ s_score.session_stability_score \in 0..20
        /\ LET points == s_score.good_posture_score - s_score.bad_posture_penalty
                         + s_score.session_stability_score
           IN  s_score.total_score =
                   IF points < 0 THEN 0 ELSE IF points > 100 THEN 100 ELSE points

\* a day whose penalty is capped at 40 and whose points are negative
C21_Witness ==
    /\ Scored
    /\ s_sessions # <<>>
    /\ s_score.bad_posture_penalty = 40
    /\ s_score.good_posture_score - s_score.bad_posture_penalty
       + s_score.session_stability_score < 0
    /\ s_score.total_score = 0

\* C29: whatever the date and the stored history, total_score never
\* exceeds 80 (60 for the good posture plus 20 for stability), so the top
\* grade A+ is never returned
C29_BelowTopGrade ==
    Scored => s_score.total_score <= 80 /\ s_score.grade # "A+"

\* two sessions of the good posture and nothing else: 60 + 10 + 7
C29_Witness ==
    /\ Scored
    /\ s_score.good_posture_score = 60
    /\ s_score.bad_posture_penalty = 0
    /\ s_score.session_stability_score = 17
    /\ s_score.total_score = 77
    /\ s_score.grade = "A"

\* the grades from the lowest to the highest
GradeRank(grade) ==
    CASE grade = "F" -> 0
      [] grade = "D" -> 1
      [] grade = "C" -> 2
      [] grade = "C+" -> 3
      [] grade = "B" -> 4
      [] grade = "B+" -> 5
      [] grade = "A" -> 6
      [] grade = "A+" -> 7

GradeThresholds == {35, 45, 55, 65, 75, 85}

\* C26 as stated: the grade is a function of total_score alone and is
\* monotone in it, so the score returned and the score of any other request
\* on the same data carry the same grade when their total_score is the same,
\* and no lower grade goes with the higher total_score
C26_AsClaimed ==
    Scored =>
        \A date \in ScoreDates, device_id \in ScoreDevices :
            LET other == calculate_daily_posture_score(s_history, date, device_id,
                                                       compensated_sum)
            IN  /\ other.total_score = s_score.total_score
                    => other.grade = s_score.grade
                /\ other.total_score > s_score.total_score
                    => GradeRank(other.grade) >= GradeRank(s_score.grade)

\* C26: the grade of a score computed from at least one session is the
\* monotone step function of total_score with thresholds 35, 45, 55, 65, 75
\* and 85 (D below 35, then C, C+, B, B+, A, A+); the answer for a day
\* without sessions has total_score 0 and grade F
C26_Grade ==
    Scored =>
        IF s_sessions = <<>>
        THEN s_score.total_score = 0 /\ s_score.grade = "F"
        ELSE GradeRank(s_score.grade) =
                 1 + Cardinality({t \in GradeThresholds : s_score.total_score >= t})

\* a scored day whose total_score is 0, as that of a day without data, and
\* whose grade is D
C26_Witness ==
    /\ Scored
    /\ s_sessions # <<>>
    /\ s_score.total_score = 0
    /\ s_score.grade = "D"
    /\ \E date \in ScoreDates :
           DaySessions(s_history, date, s_device, compensated_sum) = <<>>

\* the reset request is answered in this step
ResetAnswered == ~s_done /\ s_done' /\ s_request' = "reset"

\* C22: a reset without confirm=true deletes no row and answers with an
\* error; a reset with confirm=true empties posture_predictions and
\* client_connections, reports as deleted_records the number of rows the two
\* tables held, and leaves every session and score query without data
C22_Reset ==
    [][ResetAnswered =>
          IF ~s_reset'.confirm
          THEN /\ s_history' = s_history
               /\ client_connections' = client_connections
               /\ s_reset'.status = 400
          ELSE /\ s_history' = <<>>
               /\ client_connections' = <<>>
               /\ s_reset'.success
               /\ s_reset'.deleted_records =
                      Len(s_history) + Len(client_connections)
               /\ \A device_id \in ScoreDevices :
                      /\ calculate_posture_durations(s_history', device_id,
                                                     compensated_sum') = <<>>
                      /\ \A date \in ScoreDates :
                             /\ DaySessions(s_history', date, device_id,
                                            compensated_sum') = <<>>
                             /\ calculate_daily_posture_score(s_history', date,
                                                              device_id,
                                                              compensated_sum')
                                    = NoDataScore]_vars

====

